---- MODULE Spec2Model ----
(***************************************************************************)
(* Verification model of the vala-swap-router core:                        *)
(*   - CacheService.getWithCoalescing   (request coalescer + cache)        *)
(*   - CircuitBreakerService            (three-state circuit breaker)      *)
(*   - SwapService / SwapController     (swap-transaction lifecycle)       *)
(*   - QuoteService / RouteEngineService (the GetQuote pipeline: three     *)
(*     nested getWithCoalescing layers over the two adapters)              *)
(* Every await of the TypeScript source is a step boundary: between two    *)
(* steps of one request any step of another request may run.               *)
(* Time is in milliseconds, advanced by Tick in steps of TickMs.           *)
(***************************************************************************)
EXTENDS Integers, FiniteSets, Sequences, TLC

\* ------------------------------------------------------------------ bounds
NumCallers ==
    3
NumCalls ==
    2
NumExec ==
    1
NumCancel ==
    1
NumRequests ==
    2
MaxQuoteRecords ==
    2
MaxTime ==
    60000
TickMs ==
    15000

\* ------------------------------------------------------- program constants
failureThreshold ==
    3
recoveryTimeout ==
    30000
successThreshold ==
    2
routeExpirationMs ==
    30000
\* third and fourth argument of the getWithCoalescing call of each layer
quoteThirdArg ==
    30000
quoteFourthArg ==
    10000
routeFourthArg ==
    8000
providerThirdArg ==
    15000
providerFourthArg ==
    5000
maxAlternatives ==
    3

VARIABLES
    \* clock
    now,
    \* CacheService
    cache, pendingRequests, ckey, pc, cached, waitOn, promise, result,
    path, factoryCalls, cacheFailed, callTtl,
    \* CircuitBreakerService
    cbState, failureCount, successCount, nextAttemptTime,
    callPc, callFallback, callRes, failRun, halfOpenSuccesses, callProbe,
    \* SwapService / SwapController
    quotes, swapStatus, swapHasTx,
    epc, equote, eres, adapterCalls, builtBy,
    kpc, ktarget, kseen, kres, kupdated,
    \* QuoteService / RouteEngineService
    lcache, lpending, req, tpc, tseen, twaitOn, tprom, tres, tstart,
    adapterQuoteCalls, quoteRecords, lastFresh,
    \* JupiterAdapter / OkxAdapter
    upstream, thrown,
    \* QuoteController
    ctl,
    \* RouteEngineService.calculateRouteScore
    scoreQuote, score,
    \* RouteEngineService.fetchQuotesWithCoalescing / applyRoutingPolicy
    rankQuote, rankFavor, arrived, ranked

coalesceVars ==
    <<cache, pendingRequests, ckey, pc, cached, waitOn, promise, result,
      path, factoryCalls, cacheFailed, callTtl>>

breakerVars ==
    <<cbState, failureCount, successCount, nextAttemptTime,
      callPc, callFallback, callRes, failRun, halfOpenSuccesses,
      callProbe>>

swapVars ==
    <<quotes, swapStatus, swapHasTx,
      epc, equote, eres, adapterCalls, builtBy,
      kpc, ktarget, kseen, kres, kupdated>>

quoteVars ==
    <<lcache, lpending, req, tpc, tseen, twaitOn, tprom, tres, tstart,
      adapterQuoteCalls, quoteRecords, lastFresh>>

adapterVars ==
    <<upstream, thrown>>

controllerVars ==
    <<ctl>>

scoreVars ==
    <<scoreQuote, score>>

rankVars ==
    <<rankQuote, rankFavor, arrived, ranked>>

vars ==
    <<now, coalesceVars, breakerVars, swapVars, quoteVars, adapterVars,
      controllerVars, scoreVars, rankVars>>

\* ================================================================== clock
Tick ==
    /\ now + TickMs <= MaxTime
    /\ now' = now + TickMs

\* =========================================================== CacheService
Callers ==
    1..NumCallers
Keys ==
    {"route:a", "route:b"}
NoVal ==
    0
NoPromise ==
    0

\* A factory run by caller c yields the value c (every run is told apart).
\* Outcomes of createCoalescedPromise: the factory returns a value and it is
\* cached, returns a value and the cache write throws, returns null or
\* undefined, throws, or loses the race against the timeout.
Outcomes ==
    {"value", "set_failed", "null", "error", "timeout"}

NoResult ==
    [kind |-> "none", src |-> 0]

FactoryResult(c, outcome) ==
    IF outcome = "null" THEN [kind |-> "null", src |-> 0]
    ELSE IF outcome = "set_failed" THEN [kind |-> "CACHE_ERROR", src |-> c]
    ELSE [kind |-> outcome, src |-> c]

\* the SwapException of get and set when the cache backend throws
CacheError ==
    [kind |-> "CACHE_ERROR", src |-> 0]

CachedResult(v) ==
    [kind |-> "value", src |-> v]

NoPromiseState ==
    [st |-> "none", res |-> NoResult]

\* the ttl argument of getWithCoalescing (ttl?: number): left out, 0, or a
\* number of milliseconds
NoTtl ==
    0 - 1
TtlArgs ==
    {NoTtl, 0, routeFourthArg}

\* the cache service before any of the callers C has called: nothing
\* cached, nothing in flight
InitCoalesceWith(C) ==
    /\ cache = [k \in Keys |-> NoVal]
    /\ pendingRequests = [k \in Keys |-> NoPromise]
    /\ ckey \in [C -> Keys]
    /\ pc = [c \in C |-> "idle"]
    /\ cached = [c \in C |-> NoVal]
    /\ waitOn = [c \in C |-> NoPromise]
    /\ promise = [c \in C |-> NoPromiseState]
    /\ result = [c \in C |-> NoResult]
    /\ path = [c \in C |-> "none"]
    /\ factoryCalls = [k \in Keys |-> 0]
    /\ cacheFailed = FALSE
    /\ callTtl \in TtlArgs

InitCoalesce ==
    InitCoalesceWith(Callers)

\* get(key): the cache read of a caller (first read of getWithCoalescing).
CacheGet(k) ==
    cache[k]

\* variant: set drops the value
CacheSet_Dropped(k, v) ==
    cache

\* set(key, value, ttl) calls cacheManager.set(key, value,
\* ttl || this.defaultTtl): the value is written whatever ttl is, with the
\* default lifetime when ttl is left out or 0.
CacheSet(k, v) ==
    [cache EXCEPT ![k] = v]

\* getWithCoalescing, up to `await this.get(key)`; when the cache backend
\* throws, get throws CACHE_ERROR and so does getWithCoalescing.
GetWithCoalescing(c, cacheOk) ==
    /\ pc[c] = "idle"
    /\ IF cacheOk
         THEN /\ cached' = [cached EXCEPT ![c] = CacheGet(ckey[c])]
              /\ pc' = [pc EXCEPT ![c] = "read"]
              /\ UNCHANGED <<result, cacheFailed>>
         ELSE /\ result' = [result EXCEPT ![c] = CacheError]
              /\ pc' = [pc EXCEPT ![c] = "done"]
              /\ cacheFailed' = TRUE
              /\ UNCHANGED cached
    /\ UNCHANGED <<cache, pendingRequests, ckey, waitOn, promise,
                   path, factoryCalls, callTtl>>

\* executeWithCoalescing up to `await promise`: the promise is created (the
\* factory is invoked synchronously by createCoalescedPromise) and stored
\* in pendingRequests, replacing whatever entry is there.
StartExecuteWithCoalescing(c) ==
    /\ promise' = [promise EXCEPT ![c] = [st |-> "pending", res |-> NoResult]]
    /\ pendingRequests' = [pendingRequests EXCEPT ![ckey[c]] = c]
    /\ factoryCalls' = [factoryCalls EXCEPT ![ckey[c]] = @ + 1]
    /\ pc' = [pc EXCEPT ![c] = "running"]

\* whether a caller that missed the cache subscribes to the in-flight entry
ShouldCoalesce(k) ==
    pendingRequests[k] # NoPromise

\* getWithCoalescing after the first cache read: hit, subscribe, or execute.
CheckPending(c) ==
    /\ pc[c] = "read"
    /\ IF cached[c] # NoVal
         THEN /\ result' = [result EXCEPT ![c] = CachedResult(cached[c])]
              /\ pc' = [pc EXCEPT ![c] = "done"]
              /\ path' = [path EXCEPT ![c] = "hit"]
              /\ UNCHANGED <<pendingRequests, waitOn, promise, factoryCalls>>
         ELSE IF ShouldCoalesce(ckey[c])
           THEN /\ waitOn' = [waitOn EXCEPT ![c] = pendingRequests[ckey[c]]]
                /\ pc' = [pc EXCEPT ![c] = "waiting"]
                /\ path' = [path EXCEPT ![c] = "wait"]
                /\ UNCHANGED <<pendingRequests, promise, result, factoryCalls>>
           ELSE /\ StartExecuteWithCoalescing(c)
                /\ path' = [path EXCEPT ![c] = "direct"]
                /\ UNCHANGED <<waitOn, result>>
    /\ UNCHANGED <<cache, ckey, cached, cacheFailed, callTtl>>

\* createCoalescedPromise: the race of factory() and the timeout settles;
\* a result that is neither null nor undefined is written to the cache,
\* and the promise rejects when that write throws.
CreateCoalescedPromise(c, outcome) ==
    /\ pc[c] = "running"
    /\ promise[c].st = "pending"
    /\ IF outcome \in {"value", "null"}
         THEN /\ promise' = [promise EXCEPT ![c] =
                     [st |-> "resolved", res |-> FactoryResult(c, outcome)]]
              /\ cache' = IF outcome = "value" THEN CacheSet(ckey[c], c)
                                               ELSE cache
         ELSE /\ promise' = [promise EXCEPT ![c] =
                     [st |-> "rejected", res |-> FactoryResult(c, outcome)]]
              /\ cache' = cache
    /\ cacheFailed' = (cacheFailed \/ outcome = "set_failed")
    /\ pc' = [pc EXCEPT ![c] = "settled"]
    /\ UNCHANGED <<pendingRequests, ckey, cached, waitOn, result, path,
                   factoryCalls, callTtl>>

\* variant: the finally block leaves the entry of a failed run in the map
ExecuteWithCoalescing_KeepsFailed(c) ==
    /\ pc[c] = "settled"
    /\ pendingRequests' =
          IF promise[c].st = "rejected"
            THEN pendingRequests
            ELSE [pendingRequests EXCEPT ![ckey[c]] = NoPromise]
    /\ result' = [result EXCEPT ![c] = promise[c].res]
    /\ pc' = [pc EXCEPT ![c] = "done"]
    /\ UNCHANGED <<cache, ckey, cached, waitOn, promise, path, factoryCalls,
                   cacheFailed, callTtl>>

\* executeWithCoalescing after `await promise`: the finally block deletes
\* the entry of the key (whoever stored it) and the outcome is returned.
ExecuteWithCoalescing(c) ==
    /\ pc[c] = "settled"
    /\ pendingRequests' = [pendingRequests EXCEPT ![ckey[c]] = NoPromise]
    /\ result' = [result EXCEPT ![c] = promise[c].res]
    /\ pc' = [pc EXCEPT ![c] = "done"]
    /\ UNCHANGED <<cache, ckey, cached, waitOn, promise, path, factoryCalls,
                   cacheFailed, callTtl>>

\* variant: the waiter runs its own factory whatever the awaited outcome
WaiterRetries_Always(p) ==
    promise[p].st \in {"resolved", "rejected"}

\* variant: the waiter never falls back to a run of its own
WaiterRetries_Never(p) ==
    promise[p].st = "none"

\* whether a waiter whose awaited promise has settled falls back to a run
\* of its own
WaiterRetries(p) ==
    promise[p].st = "rejected"

\* getWithCoalescing, waiter branch, after `await this.pendingRequests
\* .get(key)`: on a value the cache is read again; on an error, also one
\* thrown by that read, the waiter falls back to executeWithCoalescing with
\* its own factory. The owner awaited the promise first, so its
\* continuation has already run.
WaiterResume(c, cacheOk) ==
    /\ pc[c] = "waiting"
    /\ promise[waitOn[c]].st \in {"resolved", "rejected"}
    /\ pc[waitOn[c]] = "done"
    /\ IF WaiterRetries(waitOn[c])
         THEN /\ StartExecuteWithCoalescing(c)
              /\ UNCHANGED <<cached, cacheFailed>>
         ELSE IF cacheOk
           THEN /\ cached' = [cached EXCEPT ![c] = CacheGet(ckey[c])]
                /\ pc' = [pc EXCEPT ![c] = "reread"]
                /\ UNCHANGED <<pendingRequests, promise, factoryCalls,
                               cacheFailed>>
           ELSE /\ StartExecuteWithCoalescing(c)
                /\ cacheFailed' = TRUE
                /\ UNCHANGED cached
    /\ UNCHANGED <<cache, ckey, waitOn, result, path, callTtl>>

\* getWithCoalescing, waiter branch, after the second `await this.get(key)`:
\* the cached value if there is one, else the awaited result.
WaiterReturn(c) ==
    /\ pc[c] = "reread"
    /\ result' = [result EXCEPT ![c] =
          IF cached[c] # NoVal THEN CachedResult(cached[c])
                               ELSE promise[waitOn[c]].res]
    /\ pc' = [pc EXCEPT ![c] = "done"]
    /\ UNCHANGED <<cache, pendingRequests, ckey, cached, waitOn, promise,
                   path, factoryCalls, cacheFailed, callTtl>>

\* the catch block of QuoteService.getQuote around getWithCoalescing for
\* the quote key: a SwapException (every error kind of the cache service
\* is one) is rethrown as it is, another error becomes
\* ROUTE_CALCULATION_FAILED
QuoteServiceCatch(kind) ==
    IF kind \in {"CACHE_ERROR", "error", "timeout"}
      THEN kind
      ELSE "ROUTE_CALCULATION_FAILED"

\* what QuoteService.getQuote gives its caller when getWithCoalescing
\* ended with res
GetQuoteOutcome(res) ==
    IF res.kind \in {"value", "null"} THEN res.kind
                                      ELSE QuoteServiceCatch(res.kind)

\* ================================================== CircuitBreakerService
Calls ==
    1..NumCalls
NoTime ==
    0

\* the circuit after registerCircuit, before any of the calls I of execute
InitBreakerWith(I) ==
    /\ cbState = "CLOSED"
    /\ failureCount = 0
    /\ successCount = 0
    /\ nextAttemptTime = NoTime
    /\ callPc = [i \in I |-> "idle"]
    /\ callFallback = [i \in I |-> FALSE]
    /\ callRes = [i \in I |-> "none"]
    /\ callProbe = [i \in I |-> FALSE]
    /\ failRun = 0
    /\ halfOpenSuccesses = 0

InitBreaker ==
    InitBreakerWith(Calls)

\* variant: the comparison with nextAttemptTime is inverted
shouldAttemptReset_Inverted ==
    IF nextAttemptTime = NoTime THEN TRUE ELSE now <= nextAttemptTime

\* shouldAttemptReset: no nextAttemptTime, or the recovery time has come.
shouldAttemptReset ==
    IF nextAttemptTime = NoTime THEN TRUE ELSE now >= nextAttemptTime

\* the circuit after transitionToHalfOpen
transitionToHalfOpen ==
    [state |-> "HALF_OPEN", fc |-> failureCount, sc |-> 0, nat |-> NoTime]

\* variant: the circuit closes one success late
onSuccess_Late ==
    IF cbState = "HALF_OPEN"
      THEN IF successCount + 1 > successThreshold
             THEN [state |-> "CLOSED", fc |-> 0, sc |-> 0,
                   nat |-> nextAttemptTime]
             ELSE [state |-> "HALF_OPEN", fc |-> failureCount,
                   sc |-> successCount + 1, nat |-> nextAttemptTime]
      ELSE IF cbState = "CLOSED"
             THEN [state |-> "CLOSED",
                   fc |-> IF failureCount - 1 > 0 THEN failureCount - 1 ELSE 0,
                   sc |-> successCount, nat |-> nextAttemptTime]
             ELSE [state |-> cbState, fc |-> failureCount,
                   sc |-> successCount, nat |-> nextAttemptTime]

\* the circuit after onSuccess
onSuccess ==
    IF cbState = "HALF_OPEN"
      THEN IF successCount + 1 >= successThreshold
             THEN [state |-> "CLOSED", fc |-> 0, sc |-> 0,
                   nat |-> nextAttemptTime]
             ELSE [state |-> "HALF_OPEN", fc |-> failureCount,
                   sc |-> successCount + 1, nat |-> nextAttemptTime]
      ELSE IF cbState = "CLOSED"
             THEN [state |-> "CLOSED",
                   fc |-> IF failureCount - 1 > 0 THEN failureCount - 1 ELSE 0,
                   sc |-> successCount, nat |-> nextAttemptTime]
             ELSE [state |-> cbState, fc |-> failureCount,
                   sc |-> successCount, nat |-> nextAttemptTime]

\* variant: the circuit opens one failure late
onFailure_Late ==
    IF cbState = "CLOSED" /\ failureCount + 1 > failureThreshold
      THEN [state |-> "OPEN", fc |-> failureCount + 1, sc |-> successCount,
            nat |-> now + recoveryTimeout]
      ELSE IF cbState = "HALF_OPEN"
             THEN [state |-> "OPEN", fc |-> failureCount + 1, sc |-> 0,
                   nat |-> now + recoveryTimeout]
             ELSE [state |-> cbState, fc |-> failureCount + 1,
                   sc |-> successCount, nat |-> nextAttemptTime]

\* variant: a failure in HALF_OPEN is only counted
onFailure_NoReopen ==
    IF cbState = "CLOSED" /\ failureCount + 1 >= failureThreshold
      THEN [state |-> "OPEN", fc |-> failureCount + 1, sc |-> successCount,
            nat |-> now + recoveryTimeout]
      ELSE [state |-> cbState, fc |-> failureCount + 1,
            sc |-> successCount, nat |-> nextAttemptTime]

\* the circuit after onFailure
onFailure ==
    IF cbState = "CLOSED" /\ failureCount + 1 >= failureThreshold
      THEN [state |-> "OPEN", fc |-> failureCount + 1, sc |-> successCount,
            nat |-> now + recoveryTimeout]
      ELSE IF cbState = "HALF_OPEN"
             THEN [state |-> "OPEN", fc |-> failureCount + 1, sc |-> 0,
                   nat |-> now + recoveryTimeout]
             ELSE [state |-> cbState, fc |-> failureCount + 1,
                   sc |-> successCount, nat |-> nextAttemptTime]

SetCircuit(c) ==
    /\ cbState' = c.state
    /\ failureCount' = c.fc
    /\ successCount' = c.sc
    /\ nextAttemptTime' = c.nat

\* history: consecutive failures recorded since the circuit was last CLOSED
\* with failure count 0 (-1: no such run is being counted)
FailRunAfter(c, failed) ==
    IF c.state = "CLOSED" /\ c.fc = 0 THEN 0
    ELSE IF failed /\ failRun >= 0 /\ failRun < failureThreshold
           THEN failRun + 1
           ELSE -1

\* history: successes recorded since the circuit last became HALF_OPEN
HalfOpenSuccessesAfter(c, succeeded) ==
    IF cbState # "HALF_OPEN" THEN 0
    ELSE IF succeeded THEN halfOpenSuccesses + 1 ELSE halfOpenSuccesses

\* the adapter operations that CircuitBreakerDexAdapter runs through
\* execute with a circuit of their own, and whether the call passes a
\* fallback: getQuote and buildTransaction do, simulateTransaction does not
GuardedOperations ==
    {"quote", "build", "simulate"}

OperationHasFallback(operation) ==
    operation \in {"quote", "build"}

\* what the caller of a guarded operation catches when execute does not
\* run the operation or gives up on it: the fallbacks throw
\* SwapException(CIRCUIT_BREAKER_OPEN); without a fallback execute throws
\* a plain Error, which carries no error code
ShortCircuitError(res) ==
    IF res = "FALLBACK" THEN "CIRCUIT_BREAKER_OPEN" ELSE "Error"

\* execute, up to `await operation()` or the short-circuit.  callProbe is
\* history: the call was let through to the operation with the circuit
\* HALF_OPEN and the operation has not returned.
Execute(i, fb) ==
    /\ callPc[i] \in {"idle", "done"}
    /\ callFallback' = [callFallback EXCEPT ![i] = fb]
    /\ IF cbState = "OPEN"
         THEN IF shouldAttemptReset
                THEN /\ SetCircuit(transitionToHalfOpen)
                     /\ halfOpenSuccesses' = 0
                     /\ callPc' = [callPc EXCEPT ![i] = "inflight"]
                     /\ callRes' = [callRes EXCEPT ![i] = "none"]
                     /\ callProbe' = [callProbe EXCEPT ![i] = TRUE]
                ELSE /\ UNCHANGED <<cbState, failureCount, successCount,
                                    nextAttemptTime, halfOpenSuccesses>>
                     /\ callPc' = [callPc EXCEPT ![i] = "done"]
                     /\ callRes' = [callRes EXCEPT ![i] =
                           IF fb THEN "FALLBACK" ELSE "OPEN_ERROR"]
                     /\ callProbe' = [callProbe EXCEPT ![i] = FALSE]
         ELSE /\ UNCHANGED <<cbState, failureCount, successCount,
                             nextAttemptTime, halfOpenSuccesses>>
              /\ callPc' = [callPc EXCEPT ![i] = "inflight"]
              /\ callRes' = [callRes EXCEPT ![i] = "none"]
              /\ callProbe' = [callProbe EXCEPT ![i] =
                    cbState = "HALF_OPEN"]
    /\ UNCHANGED failRun

\* execute after `await operation()` returned: onSuccess, the value is
\* returned.
OperationSucceeds(i) ==
    /\ callPc[i] = "inflight"
    /\ SetCircuit(onSuccess)
    /\ failRun' = FailRunAfter(onSuccess, FALSE)
    /\ halfOpenSuccesses' = HalfOpenSuccessesAfter(onSuccess, TRUE)
    /\ callPc' = [callPc EXCEPT ![i] = "done"]
    /\ callRes' = [callRes EXCEPT ![i] = "OK"]
    /\ callProbe' = [callProbe EXCEPT ![i] = FALSE]
    /\ UNCHANGED callFallback

\* execute after `await operation()` threw: onFailure, then the fallback if
\* the circuit is OPEN and there is one, else the operation's error.
OperationFails(i) ==
    /\ callPc[i] = "inflight"
    /\ SetCircuit(onFailure)
    /\ failRun' = FailRunAfter(onFailure, TRUE)
    /\ halfOpenSuccesses' = HalfOpenSuccessesAfter(onFailure, FALSE)
    /\ callPc' = [callPc EXCEPT ![i] = "done"]
    /\ callRes' = [callRes EXCEPT ![i] =
          IF onFailure.state = "OPEN" /\ callFallback[i]
            THEN "FALLBACK" ELSE "OP_ERROR"]
    /\ callProbe' = [callProbe EXCEPT ![i] = FALSE]
    /\ UNCHANGED callFallback

\* resetCircuit
ResetCircuit ==
    /\ cbState' = "CLOSED"
    /\ failureCount' = 0
    /\ successCount' = 0
    /\ nextAttemptTime' = NoTime
    /\ failRun' = 0
    /\ halfOpenSuccesses' = 0
    /\ UNCHANGED <<callPc, callFallback, callRes, callProbe>>

\* =========================================== SwapService / SwapController
Execs ==
    1..NumExec
Cancels ==
    1..NumCancel
QuoteIds ==
    {"q1", "q2"}
Providers ==
    {"jupiter", "okx"}
SwapStatus ==
    {"PENDING", "COMPLETED", "FAILED", "EXPIRED"}
NoRecord ==
    "NONE"
NoQuote ==
    "none"

\* storeQuote: quote.provider === 'Jupiter' ? QuoteProvider.JUPITER
\*                                          : QuoteProvider.OKX
StoredProvider(provider) ==
    IF provider = "Jupiter" THEN "jupiter" ELSE "okx"

\* SwapService.getAdapterForProvider: provider.toLowerCase() selects
\* this.jupiterAdapter or this.okxAdapter
getAdapterForProvider(provider) ==
    IF provider = "jupiter" THEN "jupiter" ELSE "okx"

NoAdapter ==
    "none"

\* The swap service before any of the executeSwap requests E and the
\* cancelSwap requests K.  A swap-transaction record created by request e
\* has id e.  q1 is a
\* QuoteRecord that storeQuote wrote at time 0 (expiresAt = 0 + 30 s) for a
\* best route whose quote came from the adapter `source`, named as
\* executeProviderQuote names it; q2 is an id no record has.
InitSwapWith(E, K) ==
    /\ quotes \in [QuoteIds ->
          {[present |-> TRUE, provider |-> StoredProvider(s), source |-> s,
            expiresAt |-> routeExpirationMs] : s \in Providers}
          \cup {[present |-> FALSE, provider |-> "okx", source |-> "okx",
                 expiresAt |-> NoTime]}]
    /\ quotes["q1"].present /\ ~quotes["q2"].present
    /\ swapStatus = [e \in E |-> NoRecord]
    /\ swapHasTx = [e \in E |-> FALSE]
    /\ epc = [e \in E |-> "idle"]
    /\ equote = [e \in E |-> NoQuote]
    /\ eres = [e \in E |-> "none"]
    /\ adapterCalls = [e \in E |-> 0]
    /\ builtBy = [e \in E |-> NoAdapter]
    /\ kpc = [k \in K |-> "idle"]
    /\ ktarget = [k \in K |-> 0]
    /\ kseen = [k \in K |-> NoRecord]
    /\ kres = [k \in K |-> "none"]
    /\ kupdated = [k \in K |-> FALSE]

InitSwap ==
    InitSwapWith(Execs, Cancels)

\* variant: the expiry comparison is inverted
QuoteExpired_Inverted(q) ==
    now < quotes[q].expiresAt

\* executeSwap: `new Date() > quote.expiresAt`
QuoteExpired(q) ==
    now > quotes[q].expiresAt

\* the error swapRepository.save rejects with when the store fails; it is
\* not a SwapException
RepositoryError ==
    "QueryFailedError"

\* the catch block of executeSwap: a SwapException is rethrown, any other
\* error becomes TRANSACTION_FAILED
ExecuteSwapCatch(error) ==
    IF error = RepositoryError THEN "TRANSACTION_FAILED" ELSE error

\* executeSwap up to `await this.createSwapTransaction(...)`: the quote is
\* loaded (validateAndGetQuote), its expiry checked, the PENDING record
\* written; when the store fails (~dbOk) no record is written and save
\* rejects.
ExecuteSwap(e, q, dbOk) ==
    /\ epc[e] = "idle"
    /\ equote' = [equote EXCEPT ![e] = q]
    /\ IF ~quotes[q].present
         THEN /\ eres' = [eres EXCEPT ![e] = "ROUTE_NOT_FOUND"]
              /\ epc' = [epc EXCEPT ![e] = "done"]
              /\ UNCHANGED swapStatus
         ELSE IF QuoteExpired(q)
           THEN /\ eres' = [eres EXCEPT ![e] = "ROUTE_EXPIRED"]
                /\ epc' = [epc EXCEPT ![e] = "done"]
                /\ UNCHANGED swapStatus
           ELSE IF dbOk
             THEN /\ swapStatus' = [swapStatus EXCEPT ![e] = "PENDING"]
                  /\ epc' = [epc EXCEPT ![e] = "created"]
                  /\ UNCHANGED eres
             ELSE /\ eres' = [eres EXCEPT ![e] =
                         ExecuteSwapCatch(RepositoryError)]
                  /\ epc' = [epc EXCEPT ![e] = "done"]
                  /\ UNCHANGED swapStatus
    /\ UNCHANGED <<quotes, swapHasTx, adapterCalls, builtBy,
                   kpc, ktarget, kseen, kres, kupdated>>

\* the outcomes of an adapter's buildTransaction: the transaction, or a
\* SwapException of its catch block (DEX_RATE_LIMITED on a 429, else
\* DEX_UNAVAILABLE; DEX_INVALID_RESPONSE is rethrown the same way)
BuildErrors ==
    {"DEX_RATE_LIMITED", "DEX_UNAVAILABLE"}
BuildOutcomes ==
    {"ok"} \cup BuildErrors

\* variant: a failed build marks the record FAILED
BuildTransaction_MarksFailed(e, outcome) ==
    /\ epc[e] = "created"
    /\ adapterCalls' = [adapterCalls EXCEPT ![e] = @ + 1]
    /\ builtBy' = [builtBy EXCEPT ![e] =
          getAdapterForProvider(quotes[equote[e]].provider)]
    /\ IF outcome = "ok"
         THEN /\ epc' = [epc EXCEPT ![e] = "built"]
              /\ UNCHANGED <<eres, swapStatus>>
         ELSE /\ epc' = [epc EXCEPT ![e] = "done"]
              /\ eres' = [eres EXCEPT ![e] = outcome]
              /\ swapStatus' = [swapStatus EXCEPT ![e] = "FAILED"]
    /\ UNCHANGED <<quotes, swapHasTx, equote,
                   kpc, ktarget, kseen, kres, kupdated>>

\* executeSwap, `await adapter.buildTransaction(buildRequest)`: the adapter
\* that getAdapterForProvider gave for the quote's provider is called; on
\* failure the catch block rethrows the adapter's SwapException and the
\* record is left as it is.
BuildTransaction(e, outcome) ==
    /\ epc[e] = "created"
    /\ adapterCalls' = [adapterCalls EXCEPT ![e] = @ + 1]
    /\ builtBy' = [builtBy EXCEPT ![e] =
          getAdapterForProvider(quotes[equote[e]].provider)]
    /\ IF outcome = "ok"
         THEN /\ epc' = [epc EXCEPT ![e] = "built"]
              /\ UNCHANGED eres
         ELSE /\ epc' = [epc EXCEPT ![e] = "done"]
              /\ eres' = [eres EXCEPT ![e] = outcome]
    /\ UNCHANGED <<quotes, swapStatus, swapHasTx, equote,
                   kpc, ktarget, kseen, kres, kupdated>>

\* executeSwap, `await this.swapRepository.save(swapTransaction)`: the
\* entity held since createSwapTransaction (status PENDING) is saved with
\* the transaction attached; save writes every column whose value differs
\* from the stored row.  When the store fails nothing is written.
SaveBuiltTransaction(e, dbOk) ==
    /\ epc[e] = "built"
    /\ IF dbOk
         THEN /\ swapHasTx' = [swapHasTx EXCEPT ![e] = TRUE]
              /\ swapStatus' = [swapStatus EXCEPT ![e] = "PENDING"]
              /\ eres' = [eres EXCEPT ![e] = "PENDING"]
         ELSE /\ eres' = [eres EXCEPT ![e] =
                     ExecuteSwapCatch(RepositoryError)]
              /\ UNCHANGED <<swapHasTx, swapStatus>>
    /\ epc' = [epc EXCEPT ![e] = "done"]
    /\ UNCHANGED <<quotes, equote, adapterCalls, builtBy,
                   kpc, ktarget, kseen, kres, kupdated>>

\* the row after `this.swapRepository.update({ id }, { status, ... })`
StatusAfterUpdate(id, status) ==
    IF swapStatus[id] = NoRecord THEN NoRecord ELSE status

\* updateSwapStatus(transactionId, status, ...)
UpdateSwapStatus(id, status) ==
    /\ swapStatus' = [swapStatus EXCEPT ![id] = StatusAfterUpdate(id, status)]
    /\ UNCHANGED <<quotes, swapHasTx, epc, equote, eres,
                   adapterCalls, builtBy, kpc, ktarget, kseen, kres,
                   kupdated>>

\* cancelSwap up to `await this.swapService.getSwapStatus(transactionId)`
CancelSwapRead(k, id) ==
    /\ kpc[k] = "idle"
    /\ ktarget' = [ktarget EXCEPT ![k] = id]
    /\ kseen' = [kseen EXCEPT ![k] = swapStatus[id]]
    /\ IF swapStatus[id] = NoRecord
         THEN /\ kres' = [kres EXCEPT ![k] = "ROUTE_NOT_FOUND"]
              /\ kpc' = [kpc EXCEPT ![k] = "done"]
         ELSE /\ kpc' = [kpc EXCEPT ![k] = "read"]
              /\ UNCHANGED kres
    /\ UNCHANGED <<quotes, swapStatus, swapHasTx, epc, equote, eres,
                   adapterCalls, builtBy, kupdated>>

\* cancelSwap: the statuses for which the cancellation is refused
CancelRefused(status) ==
    status \in {"COMPLETED", "FAILED"}

\* cancelSwap after the status was read: refuse, or updateSwapStatus(id,
\* 'failed', undefined, 'USER_CANCELLED', ...).
CancelSwap(k) ==
    /\ kpc[k] = "read"
    /\ IF CancelRefused(kseen[k])
         THEN /\ kres' = [kres EXCEPT ![k] = "INVALID_INPUT"]
              /\ UNCHANGED <<swapStatus, kupdated>>
         ELSE /\ swapStatus' = [swapStatus EXCEPT ![ktarget[k]] =
                     StatusAfterUpdate(ktarget[k], "FAILED")]
              /\ kupdated' = [kupdated EXCEPT ![k] = TRUE]
              /\ kres' = [kres EXCEPT ![k] = "cancelled"]
    /\ kpc' = [kpc EXCEPT ![k] = "done"]
    /\ UNCHANGED <<quotes, swapHasTx, epc, equote, eres,
                   adapterCalls, builtBy, ktarget, kseen>>

\* ======================================= QuoteService / RouteEngineService
\* GetQuote runs three nested getWithCoalescing layers: the quote layer
\* (QuoteService.getQuote), the route layer (findBestRoute) and one
\* provider-quote layer per adapter.  The requests of the model agree on
\* mints, amount and slippage, so each layer has one cache key.
Requests ==
    1..NumRequests
ProviderNames ==
    {"jupiter", "okx"}
Layers ==
    {"quote", "route"} \cup ProviderNames

\* the provider-quote layers in the order of the fan-out
FanOut ==
    <<"jupiter", "okx">>

\* getWithCoalescing(key, factory, coalescingTimeout = 10000, ttl?): the
\* third argument of a call is the coalescing timeout, the fourth the ttl
coalescingTimeout(L) ==
    CASE L = "quote" -> quoteThirdArg
      [] L = "route" -> routeExpirationMs
      [] OTHER -> providerThirdArg

ttl(L) ==
    CASE L = "quote" -> quoteFourthArg
      [] L = "route" -> routeFourthArg
      [] OTHER -> providerFourthArg

\* what an adapter answers when it answers: outAmount in units of 10^9
\* base units, the response time in ms, the platform fee in the units of
\* inAmount.  Jupiter offers more and is slower.
AdapterQuote(p) ==
    IF p = "jupiter"
      THEN [provider |-> p, outAmount |-> 500, responseTime |-> 1500,
            platformFee |-> 0]
      ELSE [provider |-> p, outAmount |-> 300, responseTime |-> 300,
            platformFee |-> 0]
inAmount ==
    1000
MaxRoutesValues ==
    {0, 3}

Min(a, b) ==
    IF a <= b THEN a ELSE b

\* sub-scores in thousandths
normalizeOutputAmount(outAmount) ==
    Min(outAmount, 1000)

normalizeFees(feeAmount, inputAmount) ==
    IF feeAmount = 0 \/ inputAmount = 0 THEN 0
    ELSE Min((feeAmount * 100000) \div inputAmount, 1000)

normalizeGasEstimate(gasEstimate) ==
    Min((gasEstimate * 1000) \div 200000, 1000)

normalizeLatency(responseTime) ==
    Min((responseTime * 1000) \div 3000, 1000)

\* providerReliability['Jupiter'] || 0.85, whatever the quote
getProviderReliability(quote) ==
    950

\* variant: the latency sub-score is weighted without being inverted
totalScore_LatencyNotInverted(quote) ==
    normalizeOutputAmount(quote.outAmount) * 40
      + (1000 - normalizeFees(quote.platformFee, inAmount)) * 25
      + (1000 - normalizeGasEstimate(100000)) * 15
      + normalizeLatency(quote.responseTime) * 15
      + getProviderReliability(quote) * 5

\* calculateRouteScore with the default weights in hundredths
\* (0.4, 0.25, 0.15, 0.15, 0.05); the total is in units of 10^-5
totalScore(quote) ==
    normalizeOutputAmount(quote.outAmount) * 40
      + (1000 - normalizeFees(quote.platformFee, inAmount)) * 25
      + (1000 - normalizeGasEstimate(100000)) * 15
      + (1000 - normalizeLatency(quote.responseTime)) * 15
      + getProviderReliability(quote) * 5

\* the quotes handed to calculateRouteScore: amounts, fees and response
\* times below, at and above the points where the sub-scores saturate
\* (outAmount 1000, a fee of 1% of inAmount, 3000 ms), chosen so that the
\* divisions of the sub-scores are exact
ScoreOutAmounts ==
    {0, 400, 1000, 1200}
ScoreFees ==
    {0, 4, 10, 12}
ScoreResponseTimes ==
    {0, 1500, 3000, 4500}
ScoredQuotes ==
    [provider : {"jupiter"}, outAmount : ScoreOutAmounts,
     responseTime : ScoreResponseTimes, platformFee : ScoreFees]
NotScored ==
    0 - 1

\* the quotes of the slots S before they are scored
InitScoreWith(S) ==
    /\ scoreQuote \in [S -> ScoredQuotes]
    /\ score = [i \in S |-> NotScored]

\* calculateRouteScore(quote, responseTime) for the quote of slot i
CalculateRouteScore(i) ==
    /\ score[i] = NotScored
    /\ score' = [score EXCEPT ![i] = totalScore(scoreQuote[i])]
    /\ UNCHANGED scoreQuote

\* the metric of applyRoutingPolicy when favorLowLatency is set,
\* (1 - latency) * 0.6 + outputAmount * 0.4, in units of 10^-4
latencyScore(quote) ==
    (1000 - normalizeLatency(quote.responseTime)) * 6
      + normalizeOutputAmount(quote.outAmount) * 4

\* the metric a request is ranked by
RankingMetric(quote, favorLowLatency) ==
    IF favorLowLatency THEN latencyScore(quote) ELSE totalScore(quote)

\* Array.prototype.sort with the comparator b - a: stable, descending
RECURSIVE SortInsert(_, _, _)
SortInsert(q, sorted, favorLowLatency) ==
    IF sorted = <<>> THEN <<q>>
    ELSE IF RankingMetric(q, favorLowLatency)
              > RankingMetric(Head(sorted), favorLowLatency)
      THEN <<q>> \o sorted
      ELSE <<Head(sorted)>> \o SortInsert(q, Tail(sorted), favorLowLatency)

RECURSIVE applyRoutingPolicy(_, _)
applyRoutingPolicy(quotesIn, favorLowLatency) ==
    IF quotesIn = <<>> THEN <<>>
    ELSE SortInsert(quotesIn[Len(quotesIn)],
                    applyRoutingPolicy(SubSeq(quotesIn, 1, Len(quotesIn) - 1),
                                       favorLowLatency),
                    favorLowLatency)

\* the quotes a fan-out can bring back, among them pairs with the same
\* totalScore and pairs with the same latency metric
RankOutAmounts ==
    {300, 450, 900}
RankResponseTimes ==
    {300, 1500}
RankedQuotes(p) ==
    [provider : {p}, outAmount : RankOutAmounts,
     responseTime : RankResponseTimes, platformFee : {0}]

\* a fan-out to the providers P before any of them has answered
InitRankWith(P) ==
    /\ rankQuote \in IF P = {} THEN {<<>>}
                              ELSE {f \in [P -> UNION {RankedQuotes(p) : p \in P}] :
                                      \A p \in P : f[p].provider = p}
    /\ rankFavor \in IF P = {} THEN {FALSE} ELSE BOOLEAN
    /\ arrived = <<>>
    /\ ranked = <<>>

\* the response of provider p arrives
ProviderQuoteArrives(p) ==
    /\ p \in DOMAIN rankQuote
    /\ \A i \in DOMAIN arrived : arrived[i] # p
    /\ arrived' = Append(arrived, p)
    /\ UNCHANGED <<rankQuote, rankFavor, ranked>>

\* variant: the results come in the order in which the promises settled
AllSettled_InArrivalOrder(arrival) ==
    arrival

\* Promise.allSettled([jupiterPromise, okxPromise]): the results are in the
\* order of the promises passed, whatever the order in which they settled
AllSettled(arrival) ==
    FanOut

\* fetchQuotesWithCoalescing after Promise.allSettled and
\* executeRouteCalculation up to applyRoutingPolicy
RankQuotes ==
    /\ rankQuote # <<>>
    /\ ranked = <<>>
    /\ Len(arrived) = Cardinality(DOMAIN rankQuote)
    /\ ranked' = applyRoutingPolicy(
                    [i \in 1..Len(arrived) |-> rankQuote[AllSettled(arrived)[i]]],
                    rankFavor)
    /\ UNCHANGED <<rankQuote, rankFavor, arrived>>

\* results of a layer: a value (the ranked quotes, best first, and for the
\* quote layer the id of the stored QuoteRecord) or a SwapException (its
\* error code, and for the coalescing timeout the key and timeout it
\* carries)
NoContext ==
    [key |-> "none", timeout |-> 0]
NoResponse ==
    [kind |-> "none", body |-> <<>>, ctx |-> NoContext, quoteId |-> 0]
ValueResponse(body, quoteId) ==
    [kind |-> "value", body |-> body, ctx |-> NoContext, quoteId |-> quoteId]
ErrorResponse(code) ==
    [kind |-> code, body |-> <<>>, ctx |-> NoContext, quoteId |-> 0]
NoPromiseYet ==
    [st |-> "none", res |-> NoResponse]
PendingPromise ==
    [st |-> "pending", res |-> NoResponse]
\* the latest response that a GetQuote computed from a fan-out, when, and
\* the parameters of that request
NoFresh ==
    [at |-> 0, body |-> <<>>, favorLowLatency |-> FALSE, maxRoutes |-> 3]
\* the parameters of a request, the time it was issued and the latest
\* freshly computed response at that time
NoRequestParams ==
    [favorLowLatency |-> FALSE, maxRoutes |-> 3, issuedAt |-> 0,
     prev |-> NoFresh]

\* `temp_${requestId}`, the id storeQuote returns when the save fails
TempQuoteId ==
    0 - 1

\* the pipeline before any of the requests R is issued: empty caches, no
\* promise in flight
InitQuoteWith(R) ==
    /\ lcache = [L \in Layers |-> [val |-> NoResponse, expiresAt |-> 0]]
    /\ lpending = [L \in Layers |-> 0]
    /\ req = [r \in R |-> NoRequestParams]
    /\ tpc = [r \in R |-> [L \in Layers |-> "idle"]]
    /\ tseen = [r \in R |-> [L \in Layers |-> NoResponse]]
    /\ twaitOn = [r \in R |-> [L \in Layers |-> 0]]
    /\ tprom = [r \in R |-> [L \in Layers |-> NoPromiseYet]]
    /\ tres = [r \in R |-> [L \in Layers |-> NoResponse]]
    /\ tstart = [r \in R |-> [L \in Layers |-> 0]]
    /\ adapterQuoteCalls = [r \in R |-> [p \in ProviderNames |-> 0]]
    /\ quoteRecords = <<>>
    /\ lastFresh = NoFresh

InitQuote ==
    InitQuoteWith(Requests)

\* variant: every read of the cache misses
LayerCacheGet_Miss(L) ==
    NoResponse

\* get(key) of the cache backend: an entry is gone once its ttl has run out
LayerCacheGet(L) ==
    IF lcache[L].val.kind = "value" /\ now < lcache[L].expiresAt
      THEN lcache[L].val
      ELSE NoResponse

\* set(key, value, ttl) as called by createCoalescedPromise
LayerCacheSet(L, value) ==
    [lcache EXCEPT ![L] = [val |-> value, expiresAt |-> now + ttl(L)]]

\* nobody awaits a promise of request r
NotAwaited(r) ==
    \A q \in Requests : \A L \in Layers :
       tpc[q][L] \in {"waiting", "reread"} => twaitOn[q][L] # r

\* QuoteService.getQuote up to the first `await this.get(key)` of
\* getWithCoalescing for the quote key.  r is a request that has not been
\* issued yet or an earlier one that has been answered.
GetQuote(r, favorLowLatency, maxRoutes) ==
    /\ tpc[r]["quote"] \in {"idle", "done"}
    /\ \A L \in Layers : tpc[r][L] \in {"idle", "done"}
    /\ NotAwaited(r)
    /\ req' = [req EXCEPT ![r] = [favorLowLatency |-> favorLowLatency,
                                  maxRoutes |-> maxRoutes,
                                  issuedAt |-> now,
                                  prev |-> lastFresh]]
    /\ tseen' = [tseen EXCEPT ![r] =
          [L \in Layers |-> IF L = "quote" THEN LayerCacheGet("quote")
                                           ELSE NoResponse]]
    /\ tpc' = [tpc EXCEPT ![r] =
          [L \in Layers |-> IF L = "quote" THEN "read" ELSE "idle"]]
    /\ twaitOn' = [twaitOn EXCEPT ![r] = [L \in Layers |-> 0]]
    /\ tprom' = [tprom EXCEPT ![r] = [L \in Layers |-> NoPromiseYet]]
    /\ tres' = [tres EXCEPT ![r] = [L \in Layers |-> NoResponse]]
    /\ tstart' = [tstart EXCEPT ![r] = [L \in Layers |-> 0]]
    /\ adapterQuoteCalls' =
          [adapterQuoteCalls EXCEPT ![r] = [p \in ProviderNames |-> 0]]
    /\ UNCHANGED <<lcache, lpending, quoteRecords, lastFresh>>

\* executeWithCoalescing up to `await promise`: the promise is stored in
\* pendingRequests and the factory of the layer runs to its first await.
\*   quote:    executeQuoteRequest calls findBestRoute, which reads the
\*             cache for the route key;
\*   route:    executeRouteCalculation reads the cache for the route key;
\*   provider: executeProviderQuote calls the adapter through its circuit
\*             breaker, which rejects at once with CIRCUIT_BREAKER_OPEN
\*             when it does not admit the call.
StartFactory(r, L, admitted) ==
    /\ lpending' = [lpending EXCEPT ![L] = r]
    /\ tstart' = [tstart EXCEPT ![r][L] = now]
    /\ CASE L = "quote" ->
              /\ tpc' = [tpc EXCEPT ![r]["quote"] = "running",
                                    ![r]["route"] = "read"]
              /\ tseen' = [tseen EXCEPT ![r]["route"] = LayerCacheGet("route")]
              /\ tprom' = [tprom EXCEPT ![r][L] = PendingPromise]
              /\ UNCHANGED adapterQuoteCalls
         [] L = "route" ->
              /\ tpc' = [tpc EXCEPT ![r]["route"] = "calc"]
              /\ tprom' = [tprom EXCEPT ![r][L] = PendingPromise]
              /\ UNCHANGED <<tseen, adapterQuoteCalls>>
         [] OTHER ->
              /\ IF admitted
                   THEN /\ tpc' = [tpc EXCEPT ![r][L] = "running"]
                        /\ tprom' = [tprom EXCEPT ![r][L] = PendingPromise]
                        /\ adapterQuoteCalls' =
                              [adapterQuoteCalls EXCEPT ![r][L] = @ + 1]
                   ELSE /\ tpc' = [tpc EXCEPT ![r][L] = "settled"]
                        /\ tprom' = [tprom EXCEPT ![r][L] =
                              [st |-> "rejected",
                               res |-> ErrorResponse("CIRCUIT_BREAKER_OPEN")]]
                        /\ UNCHANGED adapterQuoteCalls
              /\ UNCHANGED tseen

\* getWithCoalescing after the first `await this.get(key)`: a truthy cached
\* value is returned; else an entry of pendingRequests is awaited; else
\* executeWithCoalescing is called
LayerCheckPending(r, L, admitted) ==
    /\ tpc[r][L] = "read"
    /\ IF tseen[r][L].kind = "value"
         THEN /\ tres' = [tres EXCEPT ![r][L] = tseen[r][L]]
              /\ tpc' = [tpc EXCEPT ![r][L] = "done"]
              /\ UNCHANGED <<lpending, twaitOn, tprom, tstart, tseen,
                             adapterQuoteCalls>>
         ELSE IF lpending[L] # 0
           THEN /\ twaitOn' = [twaitOn EXCEPT ![r][L] = lpending[L]]
                /\ tpc' = [tpc EXCEPT ![r][L] = "waiting"]
                /\ UNCHANGED <<lpending, tprom, tres, tstart, tseen,
                               adapterQuoteCalls>>
           ELSE /\ StartFactory(r, L, admitted)
                /\ UNCHANGED <<twaitOn, tres>>
    /\ UNCHANGED <<lcache, req, quoteRecords, lastFresh>>

\* isRouteValid(route): timeTaken is the elapsed time of the adapter call,
\* taken here to be the response time the engine measured, and Date.now()
\* is the wall clock, far larger than routeExpirationMs
DateNow ==
    now + 1000000000

isRouteValid(route) ==
    /\ route.responseTime # 0
    /\ DateNow - route.responseTime < routeExpirationMs

\* executeRouteCalculation after `await this.cacheService.get(cacheKey)`:
\* a cached response with a valid best route is returned, else
\* fetchQuotesWithCoalescing calls getWithCoalescing for both provider keys
ExecuteRouteCalculation(r) ==
    /\ tpc[r]["route"] = "calc"
    /\ tprom[r]["route"].st = "pending"
    /\ LET cachedResult == LayerCacheGet("route") IN
       IF cachedResult.kind = "value" /\ isRouteValid(cachedResult.body[1])
         THEN /\ tprom' = [tprom EXCEPT ![r]["route"] =
                     [st |-> "resolved", res |-> cachedResult]]
              /\ lcache' = LayerCacheSet("route", cachedResult)
              /\ tpc' = [tpc EXCEPT ![r]["route"] = "settled"]
              /\ UNCHANGED tseen
         ELSE /\ tpc' = [tpc EXCEPT ![r]["route"] = "fanout",
                                    ![r]["jupiter"] = "read",
                                    ![r]["okx"] = "read"]
              /\ tseen' = [tseen EXCEPT
                              ![r]["jupiter"] = LayerCacheGet("jupiter"),
                              ![r]["okx"] = LayerCacheGet("okx")]
              /\ UNCHANGED <<tprom, lcache>>
    /\ UNCHANGED <<lpending, req, twaitOn, tres, tstart,
                   adapterQuoteCalls, quoteRecords, lastFresh>>

\* createCoalescedPromise of a provider key: the adapter call wins the race
\* against the timeout; executeProviderQuote names the quote by the
\* provider key of the fan-out, and a quote is written to the cache
AdapterResponds(r, p, ok) ==
    /\ tpc[r][p] = "running"
    /\ tprom[r][p].st = "pending"
    /\ now < tstart[r][p] + coalescingTimeout(p)
    /\ IF ok
         THEN LET quote == AdapterQuote(p)
              IN /\ tprom' = [tprom EXCEPT ![r][p] =
                        [st |-> "resolved",
                         res |-> ValueResponse(<<quote>>, 0)]]
                 /\ lcache' = LayerCacheSet(p, ValueResponse(<<quote>>, 0))
         ELSE /\ tprom' = [tprom EXCEPT ![r][p] =
                     [st |-> "rejected",
                      res |-> ErrorResponse("DEX_UNAVAILABLE")]]
              /\ UNCHANGED lcache
    /\ tpc' = [tpc EXCEPT ![r][p] = "settled"]
    /\ UNCHANGED <<lpending, req, tseen, twaitOn, tres, tstart,
                   adapterQuoteCalls, quoteRecords, lastFresh>>

\* variant: the error carries neither the key nor the timeout
CoalescingTimeoutError_NoContext(L) ==
    ErrorResponse("EXTERNAL_SERVICE_ERROR")

\* the error of the timeout branch of createCoalescedPromise
CoalescingTimeoutError(L) ==
    [kind |-> "EXTERNAL_SERVICE_ERROR", body |-> <<>>,
     ctx |-> [key |-> L, timeout |-> coalescingTimeout(L)], quoteId |-> 0]

\* createCoalescedPromise of a provider key: the timer set for
\* coalescingTimeout fires before the adapter call has settled
CoalescingTimeoutFires(r, p) ==
    /\ tpc[r][p] = "running"
    /\ tprom[r][p].st = "pending"
    /\ now >= tstart[r][p] + coalescingTimeout(p)
    /\ tprom' = [tprom EXCEPT ![r][p] =
          [st |-> "rejected", res |-> CoalescingTimeoutError(p)]]
    /\ tpc' = [tpc EXCEPT ![r][p] = "settled"]
    /\ UNCHANGED <<lcache, lpending, req, tseen, twaitOn, tres, tstart,
                   adapterQuoteCalls, quoteRecords, lastFresh>>

\* executeWithCoalescing after `await promise`: the finally block deletes
\* the key from pendingRequests and the outcome goes to the caller
FinishExecuteWithCoalescing(r, L) ==
    /\ tpc[r][L] = "settled"
    /\ lpending' = [lpending EXCEPT ![L] = 0]
    /\ tres' = [tres EXCEPT ![r][L] = tprom[r][L].res]
    /\ tpc' = [tpc EXCEPT ![r][L] = "done"]
    /\ UNCHANGED <<lcache, req, tseen, twaitOn, tprom, tstart,
                   adapterQuoteCalls, quoteRecords, lastFresh>>

\* variant: one rejected branch rejects the fan-out
SurvivingQuotes_AllOrNothing(r) ==
    IF \A p \in ProviderNames : tres[r][p].kind = "value"
      THEN [i \in 1..Len(FanOut) |-> tres[r][FanOut[i]].body[1]]
      ELSE <<>>

\* fetchQuotesWithCoalescing after Promise.allSettled: the quotes of the
\* fulfilled branches, in the order of the fan-out
SurvivingQuotes(r) ==
    LET results == [i \in 1..Len(FanOut) |-> tres[r][FanOut[i]]]
        fulfilled == SelectSeq(results, LAMBDA x : x.kind = "value")
    IN [i \in 1..Len(fulfilled) |-> fulfilled[i].body[1]]

\* executeRouteCalculation, ranking: rankedQuotes[0] followed by
\* rankedQuotes.slice(1, maxAlternatives + 1)
RankedResponse(quotesIn, request) ==
    LET rankedQuotes == applyRoutingPolicy(quotesIn, request.favorLowLatency)
    IN SubSeq(rankedQuotes, 1, Min(Len(rankedQuotes), maxAlternatives + 1))

\* executeRouteCalculation after the fan-out has settled: ROUTE_NOT_FOUND
\* without a quote, else the ranked response, which createCoalescedPromise
\* writes to the cache
RouteFanIn(r) ==
    /\ tpc[r]["route"] = "fanout"
    /\ tprom[r]["route"].st = "pending"
    /\ \A p \in ProviderNames : tpc[r][p] = "done"
    /\ LET quotesIn == SurvivingQuotes(r) IN
       IF quotesIn = <<>>
         THEN /\ tprom' = [tprom EXCEPT ![r]["route"] =
                     [st |-> "rejected",
                      res |-> ErrorResponse("ROUTE_NOT_FOUND")]]
              /\ UNCHANGED lcache
         ELSE LET response ==
                     ValueResponse(RankedResponse(quotesIn, req[r]), 0)
              IN /\ tprom' = [tprom EXCEPT ![r]["route"] =
                        [st |-> "resolved", res |-> response]]
                 /\ lcache' = LayerCacheSet("route", response)
    /\ tpc' = [tpc EXCEPT ![r]["route"] = "settled"]
    /\ UNCHANGED <<lpending, req, tseen, twaitOn, tres, tstart,
                   adapterQuoteCalls, quoteRecords, lastFresh>>

\* history: the favorLowLatency and maxRoutes of the request whose
\* executeQuoteRequest computed a response, kept with the QuoteRecord that
\* the response names
RequestParameters(request) ==
    [favorLowLatency |-> request.favorLowLatency,
     maxRoutes |-> request.maxRoutes]

\* variant: a failed save of the QuoteRecord fails the request
ExecuteQuoteRequest_FailsOnSave(r, dbOk) ==
    /\ tpc[r]["quote"] = "running"
    /\ tprom[r]["quote"].st = "pending"
    /\ tpc[r]["route"] = "done"
    /\ LET routeResponse == tres[r]["route"] IN
       IF routeResponse.kind # "value" \/ ~dbOk
         THEN /\ tprom' = [tprom EXCEPT ![r]["quote"] =
                     [st |-> "rejected",
                      res |-> IF routeResponse.kind # "value"
                                THEN routeResponse
                                ELSE ErrorResponse("DATABASE_ERROR")]]
              /\ UNCHANGED <<lcache, quoteRecords, lastFresh>>
         ELSE LET bestRoute == routeResponse.body[1]
                  quoteId == Len(quoteRecords) + 1
                  response == ValueResponse(routeResponse.body, quoteId)
              IN /\ quoteRecords' =
                       Append(quoteRecords,
                          [provider |-> StoredProvider(bestRoute.provider),
                           source |-> bestRoute.provider,
                           expiresAt |-> now + routeExpirationMs,
                           request |-> RequestParameters(req[r])])
                 /\ tprom' = [tprom EXCEPT ![r]["quote"] =
                        [st |-> "resolved", res |-> response]]
                 /\ lcache' = LayerCacheSet("quote", response)
                 /\ lastFresh' =
                       IF tprom[r]["route"].st = "resolved"
                         THEN [at |-> now, body |-> routeResponse.body,
                               favorLowLatency |-> req[r].favorLowLatency,
                               maxRoutes |-> req[r].maxRoutes]
                         ELSE lastFresh
    /\ tpc' = [tpc EXCEPT ![r]["quote"] = "settled"]
    /\ UNCHANGED <<lpending, req, tseen, twaitOn, tres, tstart,
                   adapterQuoteCalls>>

\* executeQuoteRequest after `await this.routeEngineService.findBestRoute`:
\* an error goes to the caller; else storeQuote saves a QuoteRecord for the
\* best route (a failed save gives a temporary id) and the response, with
\* the quote id, is written to the cache by createCoalescedPromise
ExecuteQuoteRequest(r, dbOk) ==
    /\ tpc[r]["quote"] = "running"
    /\ tprom[r]["quote"].st = "pending"
    /\ tpc[r]["route"] = "done"
    /\ LET routeResponse == tres[r]["route"] IN
       IF routeResponse.kind # "value"
         THEN /\ tprom' = [tprom EXCEPT ![r]["quote"] =
                     [st |-> "rejected", res |-> routeResponse]]
              /\ UNCHANGED <<lcache, quoteRecords, lastFresh>>
         ELSE LET bestRoute == routeResponse.body[1]
                  quoteId == IF dbOk THEN Len(quoteRecords) + 1
                                     ELSE TempQuoteId
                  response == ValueResponse(routeResponse.body, quoteId)
              IN /\ quoteRecords' =
                       IF dbOk
                         THEN Append(quoteRecords,
                                [provider |-> StoredProvider(bestRoute.provider),
                                 source |-> bestRoute.provider,
                                 expiresAt |-> now + routeExpirationMs,
                                 request |-> RequestParameters(req[r])])
                         ELSE quoteRecords
                 /\ tprom' = [tprom EXCEPT ![r]["quote"] =
                        [st |-> "resolved", res |-> response]]
                 /\ lcache' = LayerCacheSet("quote", response)
                 /\ lastFresh' =
                       IF tprom[r]["route"].st = "resolved"
                         THEN [at |-> now, body |-> routeResponse.body,
                               favorLowLatency |-> req[r].favorLowLatency,
                               maxRoutes |-> req[r].maxRoutes]
                         ELSE lastFresh
    /\ tpc' = [tpc EXCEPT ![r]["quote"] = "settled"]
    /\ UNCHANGED <<lpending, req, tseen, twaitOn, tres, tstart,
                   adapterQuoteCalls>>

\* getWithCoalescing, waiter branch, after `await this.pendingRequests
\* .get(key)`: on a value the cache is read again, on an error the waiter
\* calls executeWithCoalescing with its own factory
LayerWaiterResume(r, L, admitted) ==
    /\ tpc[r][L] = "waiting"
    /\ tprom[twaitOn[r][L]][L].st \in {"resolved", "rejected"}
    /\ tpc[twaitOn[r][L]][L] = "done"
    /\ IF tprom[twaitOn[r][L]][L].st = "rejected"
         THEN StartFactory(r, L, admitted)
         ELSE /\ tseen' = [tseen EXCEPT ![r][L] = LayerCacheGet(L)]
              /\ tpc' = [tpc EXCEPT ![r][L] = "reread"]
              /\ UNCHANGED <<lpending, tprom, tstart, adapterQuoteCalls>>
    /\ UNCHANGED <<lcache, req, twaitOn, tres, quoteRecords, lastFresh>>

\* getWithCoalescing, waiter branch, after the second `await this.get(key)`
LayerWaiterReturn(r, L) ==
    /\ tpc[r][L] = "reread"
    /\ tres' = [tres EXCEPT ![r][L] =
          IF tseen[r][L].kind = "value" THEN tseen[r][L]
                                        ELSE tprom[twaitOn[r][L]][L].res]
    /\ tpc' = [tpc EXCEPT ![r][L] = "done"]
    /\ UNCHANGED <<lcache, lpending, req, tseen, twaitOn, tprom, tstart,
                   adapterQuoteCalls, quoteRecords, lastFresh>>

\* ---- the clients and the clock of the pipeline
\* no GetQuote is under way
NoRequestActive ==
    \A r \in Requests : tpc[r]["quote"] \in {"idle", "done"}

\* request r stands at nothing but adapter calls
BlockedOnAdapter(r) ==
    /\ tpc[r]["quote"] = "running"
    /\ tpc[r]["route"] = "fanout"
    /\ \A p \in ProviderNames : tpc[r][p] \in {"running", "done"}
    /\ \E p \in ProviderNames : tpc[r][p] = "running"

\* timers fire when they are due
NoTimerOverdue ==
    \A r \in Requests : \A p \in ProviderNames :
       tpc[r][p] = "running" => now < tstart[r][p] + coalescingTimeout(p)

\* cache and database answer within one tick of the clock; an adapter may
\* take any time
TickWhileBlocked ==
    /\ NoTimerOverdue
    /\ \A r \in Requests :
          tpc[r]["quote"] \in {"idle", "done"} \/ BlockedOnAdapter(r)
    /\ Tick

\* ======================================================== QuoteController
\* the token pair of the pipeline's cache keys, and queries that name one
\* token twice
MintPairs ==
    {<<"SOL", "USDC">>, <<"SOL", "SOL">>, <<"USDC", "USDC">>}

NoQuery ==
    [inputMint |-> "none", outputMint |-> "none", res |-> "none"]

\* the controller before any of the requests R has arrived
InitControllerWith(R) ==
    ctl = [r \in R |-> NoQuery]

\* variant: the controller passes every query on to the service
QuoteControllerGetQuote_NoCheck(r, inputMint, outputMint) ==
    /\ ctl[r] = NoQuery
    /\ ctl' = [ctl EXCEPT ![r] = [inputMint |-> inputMint,
                                  outputMint |-> outputMint,
                                  res |-> "forwarded"]]
    /\ GetQuote(r, FALSE, 3)

\* QuoteController.getQuote: a query with inputMint equal to outputMint is
\* thrown back with INVALID_INPUT, any other is passed to
\* QuoteService.getQuote
QuoteControllerGetQuote(r, inputMint, outputMint) ==
    /\ ctl[r] = NoQuery
    /\ IF inputMint = outputMint
         THEN /\ ctl' = [ctl EXCEPT ![r] = [inputMint |-> inputMint,
                                            outputMint |-> outputMint,
                                            res |-> "INVALID_INPUT"]]
              /\ UNCHANGED quoteVars
         ELSE /\ ctl' = [ctl EXCEPT ![r] = [inputMint |-> inputMint,
                                            outputMint |-> outputMint,
                                            res |-> "forwarded"]]
              /\ GetQuote(r, FALSE, 3)

\* ========================================== JupiterAdapter / OkxAdapter
\* the guarded operations of an adapter that call the upstream API
AdapterOperations ==
    {"quote", "build"}

AdapterCalls ==
    ProviderNames \X AdapterOperations

\* what an upstream attempt ends with, as axios reports it: a response with
\* a 2xx status and a payload, a rejection that carries the response of a
\* non-2xx status, or a rejection with a code and no response
HttpErrorStatuses ==
    {400, 404, 429, 500, 503}

NetworkErrorCodes ==
    {"ECONNABORTED", "ETIMEDOUT", "ECONNREFUSED"}

Payloads ==
    {"valid", "empty", "malformed"}

NoStatus ==
    0

UpstreamOutcomes ==
    [status : {200}, code : {"none"}, payload : Payloads]
       \cup [status : HttpErrorStatuses, code : {"ERR_BAD_RESPONSE"},
             payload : {"none"}]
       \cup [status : {NoStatus}, code : NetworkErrorCodes, payload : {"none"}]

NotCalled ==
    [status |-> NoStatus, code |-> "none", payload |-> "none"]

\* the catch block of getQuote, the same in both adapters, for an error
\* that is not a SwapException
GetQuoteCatch(error) ==
    IF error.status = 429 THEN "DEX_RATE_LIMITED"
    ELSE IF error.code \in {"ECONNABORTED", "ETIMEDOUT"}
      THEN "TRANSACTION_TIMEOUT"
      ELSE "DEX_UNAVAILABLE"

\* the catch block of buildTransaction, the same in both adapters, for an
\* error that is not a SwapException
BuildTransactionCatch(error) ==
    IF error.status = 429 THEN "DEX_RATE_LIMITED" ELSE "DEX_UNAVAILABLE"

\* JupiterAdapter.getQuote: `!data || !data.outAmount` throws
\* DEX_INVALID_RESPONSE, which the catch block rethrows
JupiterGetQuote(up) ==
    IF up.status = 200
      THEN IF up.payload = "valid" THEN "ok" ELSE "DEX_INVALID_RESPONSE"
      ELSE GetQuoteCatch(up)

\* JupiterAdapter.buildTransaction: `!data || !data.swapTransaction`
JupiterBuildTransaction(up) ==
    IF up.status = 200
      THEN IF up.payload = "valid" THEN "ok" ELSE "DEX_INVALID_RESPONSE"
      ELSE BuildTransactionCatch(up)

\* OkxAdapter.getQuote: `!data || data.code !== '0' || !data.data?.[0]`
OkxGetQuote(up) ==
    IF up.status = 200
      THEN IF up.payload = "valid" THEN "ok" ELSE "DEX_INVALID_RESPONSE"
      ELSE GetQuoteCatch(up)

\* OkxAdapter.buildTransaction
OkxBuildTransaction(up) ==
    IF up.status = 200
      THEN IF up.payload = "valid" THEN "ok" ELSE "DEX_INVALID_RESPONSE"
      ELSE BuildTransactionCatch(up)

\* the adapters before the calls in S are made
InitAdapterWith(S) ==
    /\ upstream = [c \in S |-> NotCalled]
    /\ thrown = [c \in S |-> "none"]

\* one call of an adapter operation, the upstream attempt ending with up
AdapterCall(provider, operation, up) ==
    /\ upstream[<<provider, operation>>] = NotCalled
    /\ upstream' = [upstream EXCEPT ![<<provider, operation>>] = up]
    /\ thrown' = [thrown EXCEPT ![<<provider, operation>>] =
          IF provider = "jupiter"
            THEN IF operation = "quote" THEN JupiterGetQuote(up)
                                        ELSE JupiterBuildTransaction(up)
            ELSE IF operation = "quote" THEN OkxGetQuote(up)
                                        ELSE OkxBuildTransaction(up)]

\* ========================================================= specifications
\* Each component is explored on its own; the other components stay in
\* their state after construction, without any request of their own.
\* The keys are interchangeable, so the first caller's key is fixed; the
\* callers pass the ttl of the route call site.
InitCoalesceOnly ==
    /\ now = 0
    /\ InitAdapterWith({})
    /\ InitControllerWith({})
    /\ InitScoreWith({})
    /\ InitRankWith({})
    /\ InitCoalesce /\ ckey[1] = "route:a" /\ callTtl = routeFourthArg
    /\ InitBreakerWith({})
    /\ InitSwapWith({}, {}) /\ quotes["q1"].source = "jupiter"
    /\ InitQuoteWith({})

InitBreakerOnly ==
    /\ now = 0
    /\ InitAdapterWith({})
    /\ InitControllerWith({})
    /\ InitScoreWith({})
    /\ InitRankWith({})
    /\ InitCoalesceWith({}) /\ callTtl = routeFourthArg
    /\ InitBreaker
    /\ InitSwapWith({}, {}) /\ quotes["q1"].source = "jupiter"
    /\ InitQuoteWith({})

InitSwapOnly ==
    /\ now = 0
    /\ InitAdapterWith({})
    /\ InitControllerWith({})
    /\ InitScoreWith({})
    /\ InitRankWith({})
    /\ InitCoalesceWith({}) /\ callTtl = routeFourthArg
    /\ InitBreakerWith({})
    /\ InitSwap
    /\ InitQuoteWith({})

NextCoalesce ==
    \/ \E c \in Callers, cacheOk \in BOOLEAN :
          GetWithCoalescing(c, cacheOk)
             /\ UNCHANGED <<now, breakerVars, swapVars, quoteVars,
                         adapterVars, controllerVars, scoreVars, rankVars>>
    \/ \E c \in Callers :
          CheckPending(c) /\ UNCHANGED <<now, breakerVars, swapVars, quoteVars,
                         adapterVars, controllerVars, scoreVars, rankVars>>
    \/ \E c \in Callers, o \in Outcomes :
          CreateCoalescedPromise(c, o)
             /\ UNCHANGED <<now, breakerVars, swapVars, quoteVars,
                         adapterVars, controllerVars, scoreVars, rankVars>>
    \/ \E c \in Callers :
          ExecuteWithCoalescing(c) /\ UNCHANGED <<now, breakerVars, swapVars, quoteVars,
                         adapterVars, controllerVars, scoreVars, rankVars>>
    \/ \E c \in Callers, cacheOk \in BOOLEAN :
          WaiterResume(c, cacheOk) /\ UNCHANGED <<now, breakerVars, swapVars, quoteVars,
                         adapterVars, controllerVars, scoreVars, rankVars>>
    \/ \E c \in Callers :
          WaiterReturn(c) /\ UNCHANGED <<now, breakerVars, swapVars, quoteVars,
                         adapterVars, controllerVars, scoreVars, rankVars>>

\* getWithCoalescing called by two callers with any ttl argument
TtlCallers ==
    {1, 2}

InitCoalesceTtl ==
    /\ now = 0
    /\ InitAdapterWith({})
    /\ InitControllerWith({})
    /\ InitScoreWith({})
    /\ InitRankWith({})
    /\ InitCoalesceWith(TtlCallers) /\ ckey[1] = "route:a"
    /\ InitBreakerWith({})
    /\ InitSwapWith({}, {}) /\ quotes["q1"].source = "jupiter"
    /\ InitQuoteWith({})

NextCoalesceTtl ==
    \/ \E c \in TtlCallers, cacheOk \in BOOLEAN :
          GetWithCoalescing(c, cacheOk)
             /\ UNCHANGED <<now, breakerVars, swapVars, quoteVars,
                         adapterVars, controllerVars, scoreVars, rankVars>>
    \/ \E c \in TtlCallers :
          CheckPending(c) /\ UNCHANGED <<now, breakerVars, swapVars, quoteVars,
                         adapterVars, controllerVars, scoreVars, rankVars>>
    \/ \E c \in TtlCallers, o \in Outcomes :
          CreateCoalescedPromise(c, o)
             /\ UNCHANGED <<now, breakerVars, swapVars, quoteVars,
                         adapterVars, controllerVars, scoreVars, rankVars>>
    \/ \E c \in TtlCallers :
          ExecuteWithCoalescing(c) /\ UNCHANGED <<now, breakerVars, swapVars, quoteVars,
                         adapterVars, controllerVars, scoreVars, rankVars>>
    \/ \E c \in TtlCallers, cacheOk \in BOOLEAN :
          WaiterResume(c, cacheOk) /\ UNCHANGED <<now, breakerVars, swapVars, quoteVars,
                         adapterVars, controllerVars, scoreVars, rankVars>>
    \/ \E c \in TtlCallers :
          WaiterReturn(c) /\ UNCHANGED <<now, breakerVars, swapVars, quoteVars,
                         adapterVars, controllerVars, scoreVars, rankVars>>

SpecCoalesceTtl ==
    InitCoalesceTtl /\ [][NextCoalesceTtl]_vars

NextBreaker ==
    \/ \E i \in Calls, fb \in BOOLEAN :
          Execute(i, fb) /\ UNCHANGED <<now, coalesceVars, swapVars, quoteVars,
                         adapterVars, controllerVars, scoreVars, rankVars>>
    \/ \E i \in Calls :
          OperationSucceeds(i) /\ UNCHANGED <<now, coalesceVars, swapVars, quoteVars,
                         adapterVars, controllerVars, scoreVars, rankVars>>
    \/ \E i \in Calls :
          OperationFails(i) /\ UNCHANGED <<now, coalesceVars, swapVars, quoteVars,
                         adapterVars, controllerVars, scoreVars, rankVars>>
    \/ ResetCircuit /\ UNCHANGED <<now, coalesceVars, swapVars, quoteVars,
                         adapterVars, controllerVars, scoreVars, rankVars>>
    \/ Tick /\ UNCHANGED <<coalesceVars, breakerVars, swapVars, quoteVars,
                         adapterVars, controllerVars, scoreVars, rankVars>>

NextSwap ==
    \/ \E e \in Execs, q \in QuoteIds :
          ExecuteSwap(e, q, TRUE)
             /\ UNCHANGED <<now, coalesceVars, breakerVars, quoteVars,
                         adapterVars, controllerVars, scoreVars, rankVars>>
    \/ \E e \in Execs, outcome \in BuildOutcomes :
          BuildTransaction(e, outcome)
             /\ UNCHANGED <<now, coalesceVars, breakerVars, quoteVars,
                         adapterVars, controllerVars, scoreVars, rankVars>>
    \/ \E e \in Execs :
          SaveBuiltTransaction(e, TRUE)
             /\ UNCHANGED <<now, coalesceVars, breakerVars, quoteVars,
                         adapterVars, controllerVars, scoreVars, rankVars>>
    \/ \E id \in Execs, st \in SwapStatus :
          UpdateSwapStatus(id, st)
             /\ UNCHANGED <<now, coalesceVars, breakerVars, quoteVars,
                         adapterVars, controllerVars, scoreVars, rankVars>>
    \/ \E k \in Cancels, id \in Execs :
          CancelSwapRead(k, id)
             /\ UNCHANGED <<now, coalesceVars, breakerVars, quoteVars,
                         adapterVars, controllerVars, scoreVars, rankVars>>
    \/ \E k \in Cancels :
          CancelSwap(k) /\ UNCHANGED <<now, coalesceVars, breakerVars, quoteVars,
                         adapterVars, controllerVars, scoreVars, rankVars>>
    \/ Tick /\ UNCHANGED <<coalesceVars, breakerVars, swapVars, quoteVars,
                         adapterVars, controllerVars, scoreVars, rankVars>>

\* executeSwap against a durable store that can fail on either write
InitSwapStore ==
    /\ now = 0
    /\ InitAdapterWith({})
    /\ InitControllerWith({})
    /\ InitScoreWith({})
    /\ InitRankWith({})
    /\ InitCoalesceWith({}) /\ callTtl = routeFourthArg
    /\ InitBreakerWith({})
    /\ InitSwapWith(Execs, {})
    /\ InitQuoteWith({})

NextSwapStore ==
    \/ \E e \in Execs, q \in QuoteIds, dbOk \in BOOLEAN :
          ExecuteSwap(e, q, dbOk)
             /\ UNCHANGED <<now, coalesceVars, breakerVars, quoteVars,
                         adapterVars, controllerVars, scoreVars, rankVars>>
    \/ \E e \in Execs, outcome \in BuildOutcomes :
          BuildTransaction(e, outcome)
             /\ UNCHANGED <<now, coalesceVars, breakerVars, quoteVars,
                         adapterVars, controllerVars, scoreVars, rankVars>>
    \/ \E e \in Execs, dbOk \in BOOLEAN :
          SaveBuiltTransaction(e, dbOk)
             /\ UNCHANGED <<now, coalesceVars, breakerVars, quoteVars,
                         adapterVars, controllerVars, scoreVars, rankVars>>
    \/ \E id \in Execs, st \in SwapStatus :
          UpdateSwapStatus(id, st)
             /\ UNCHANGED <<now, coalesceVars, breakerVars, quoteVars,
                         adapterVars, controllerVars, scoreVars, rankVars>>
    \/ Tick /\ UNCHANGED <<coalesceVars, breakerVars, swapVars, quoteVars,
                         adapterVars, controllerVars, scoreVars, rankVars>>

SpecSwapStore ==
    InitSwapStore /\ [][NextSwapStore]_vars

\* every operation of every adapter called once, with any upstream outcome
InitAdapterOnly ==
    /\ now = 0
    /\ InitAdapterWith(AdapterCalls)
    /\ InitControllerWith({})
    /\ InitScoreWith({})
    /\ InitRankWith({})
    /\ InitCoalesceWith({}) /\ callTtl = routeFourthArg
    /\ InitBreakerWith({})
    /\ InitSwapWith({}, {}) /\ quotes["q1"].source = "jupiter"
    /\ InitQuoteWith({})

NextAdapter ==
    \E provider \in ProviderNames, operation \in AdapterOperations,
       up \in UpstreamOutcomes :
       AdapterCall(provider, operation, up)
          /\ UNCHANGED <<now, coalesceVars, breakerVars, swapVars, quoteVars,
                         controllerVars, scoreVars, rankVars>>

SpecAdapter ==
    InitAdapterOnly /\ [][NextAdapter]_vars

\* two quotes scored by calculateRouteScore, in either order
ScoreSlots ==
    {1, 2}

InitScoreOnly ==
    /\ now = 0
    /\ InitAdapterWith({})
    /\ InitControllerWith({})
    /\ InitScoreWith(ScoreSlots)
    /\ InitRankWith({})
    /\ InitCoalesceWith({}) /\ callTtl = routeFourthArg
    /\ InitBreakerWith({})
    /\ InitSwapWith({}, {}) /\ quotes["q1"].source = "jupiter"
    /\ InitQuoteWith({})

NextScore ==
    \E i \in ScoreSlots :
       CalculateRouteScore(i)
          /\ UNCHANGED <<now, coalesceVars, breakerVars, swapVars, quoteVars,
                         adapterVars, controllerVars, rankVars>>

SpecScore ==
    InitScoreOnly /\ [][NextScore]_vars

\* one fan-out to both providers, the answers arriving in either order
InitRankOnly ==
    /\ now = 0
    /\ InitAdapterWith({})
    /\ InitControllerWith({})
    /\ InitScoreWith({})
    /\ InitRankWith(ProviderNames)
    /\ InitCoalesceWith({}) /\ callTtl = routeFourthArg
    /\ InitBreakerWith({})
    /\ InitSwapWith({}, {}) /\ quotes["q1"].source = "jupiter"
    /\ InitQuoteWith({})

NextRank ==
    \/ \E p \in ProviderNames :
          ProviderQuoteArrives(p)
             /\ UNCHANGED <<now, coalesceVars, breakerVars, swapVars, quoteVars,
                            adapterVars, controllerVars, scoreVars>>
    \/ RankQuotes
          /\ UNCHANGED <<now, coalesceVars, breakerVars, swapVars, quoteVars,
                         adapterVars, controllerVars, scoreVars>>

SpecRank ==
    InitRankOnly /\ [][NextRank]_vars

SpecCoalesce ==
    InitCoalesceOnly /\ [][NextCoalesce]_vars

SpecBreaker ==
    InitBreakerOnly /\ [][NextBreaker]_vars

SpecSwap ==
    InitSwapOnly /\ [][NextSwap]_vars

InitQuoteOnly ==
    /\ now = 0
    /\ InitAdapterWith({})
    /\ InitControllerWith(Requests)
    /\ InitScoreWith({})
    /\ InitRankWith({})
    /\ InitCoalesceWith({}) /\ callTtl = routeFourthArg
    /\ InitBreakerWith({})
    /\ InitSwapWith({}, {}) /\ quotes["q1"].source = "jupiter"
    /\ InitQuote

\* clients that issue GetQuote one after the other, as long as the
\* QuoteRecord table has room
SequentialClient(r) ==
    /\ NoRequestActive
    /\ r = 1
    /\ Len(quoteRecords) < MaxQuoteRecords

\* GetQuote requests issued one at a time, with any parameters, any adapter
\* answers and the clock
NextQuoteSeq ==
    \/ \E r \in Requests, f \in BOOLEAN, m \in MaxRoutesValues :
          SequentialClient(r) /\ GetQuote(r, f, m)
             /\ UNCHANGED <<now, coalesceVars, breakerVars, swapVars,
                         adapterVars, controllerVars, scoreVars, rankVars>>
    \/ \E r \in Requests, L \in Layers, admitted \in BOOLEAN :
          LayerCheckPending(r, L, admitted)
             /\ UNCHANGED <<now, coalesceVars, breakerVars, swapVars,
                         adapterVars, controllerVars, scoreVars, rankVars>>
    \/ \E r \in Requests :
          ExecuteRouteCalculation(r)
             /\ UNCHANGED <<now, coalesceVars, breakerVars, swapVars,
                         adapterVars, controllerVars, scoreVars, rankVars>>
    \/ \E r \in Requests, p \in ProviderNames, ok \in BOOLEAN :
          AdapterResponds(r, p, ok)
             /\ UNCHANGED <<now, coalesceVars, breakerVars, swapVars,
                         adapterVars, controllerVars, scoreVars, rankVars>>
    \/ \E r \in Requests, p \in ProviderNames :
          CoalescingTimeoutFires(r, p)
             /\ UNCHANGED <<now, coalesceVars, breakerVars, swapVars,
                         adapterVars, controllerVars, scoreVars, rankVars>>
    \/ \E r \in Requests, L \in Layers :
          FinishExecuteWithCoalescing(r, L)
             /\ UNCHANGED <<now, coalesceVars, breakerVars, swapVars,
                         adapterVars, controllerVars, scoreVars, rankVars>>
    \/ \E r \in Requests :
          RouteFanIn(r)
             /\ UNCHANGED <<now, coalesceVars, breakerVars, swapVars,
                         adapterVars, controllerVars, scoreVars, rankVars>>
    \/ \E r \in Requests :
          ExecuteQuoteRequest(r, TRUE)
             /\ UNCHANGED <<now, coalesceVars, breakerVars, swapVars,
                         adapterVars, controllerVars, scoreVars, rankVars>>
    \/ TickWhileBlocked
          /\ UNCHANGED <<coalesceVars, breakerVars, swapVars, quoteVars,
                         adapterVars, controllerVars, scoreVars, rankVars>>

\* identical GetQuote requests issued concurrently, every await a step
\* boundary; the adapters answer or fail, with one fixed quote each, and
\* the save of the QuoteRecord succeeds or fails
NextQuoteConc ==
    \/ \E r \in Requests, pair \in MintPairs :
          tpc[r]["quote"] = "idle"
             /\ QuoteControllerGetQuote(r, pair[1], pair[2])
             /\ UNCHANGED <<now, coalesceVars, breakerVars, swapVars,
                            adapterVars, scoreVars, rankVars>>
    \/ \E r \in Requests, L \in Layers, admitted \in BOOLEAN :
          LayerCheckPending(r, L, admitted)
             /\ UNCHANGED <<now, coalesceVars, breakerVars, swapVars,
                         adapterVars, controllerVars, scoreVars, rankVars>>
    \/ \E r \in Requests :
          ExecuteRouteCalculation(r)
             /\ UNCHANGED <<now, coalesceVars, breakerVars, swapVars,
                         adapterVars, controllerVars, scoreVars, rankVars>>
    \/ \E r \in Requests, p \in ProviderNames, ok \in BOOLEAN :
          AdapterResponds(r, p, ok)
             /\ UNCHANGED <<now, coalesceVars, breakerVars, swapVars,
                         adapterVars, controllerVars, scoreVars, rankVars>>
    \/ \E r \in Requests, L \in Layers :
          FinishExecuteWithCoalescing(r, L)
             /\ UNCHANGED <<now, coalesceVars, breakerVars, swapVars,
                         adapterVars, controllerVars, scoreVars, rankVars>>
    \/ \E r \in Requests :
          RouteFanIn(r)
             /\ UNCHANGED <<now, coalesceVars, breakerVars, swapVars,
                         adapterVars, controllerVars, scoreVars, rankVars>>
    \/ \E r \in Requests, dbOk \in BOOLEAN :
          ExecuteQuoteRequest(r, dbOk)
             /\ UNCHANGED <<now, coalesceVars, breakerVars, swapVars,
                         adapterVars, controllerVars, scoreVars, rankVars>>
    \/ \E r \in Requests, L \in Layers, admitted \in BOOLEAN :
          LayerWaiterResume(r, L, admitted)
             /\ UNCHANGED <<now, coalesceVars, breakerVars, swapVars,
                         adapterVars, controllerVars, scoreVars, rankVars>>
    \/ \E r \in Requests, L \in Layers :
          LayerWaiterReturn(r, L)
             /\ UNCHANGED <<now, coalesceVars, breakerVars, swapVars,
                         adapterVars, controllerVars, scoreVars, rankVars>>

SpecQuoteSeq ==
    InitQuoteOnly /\ [][NextQuoteSeq]_vars
SpecQuoteConc ==
    InitQuoteOnly /\ [][NextQuoteConc]_vars

\* ================================================================= claims
CallersOf(k) ==
    {c \in Callers : ckey[c] = k}

AllDone(k) ==
    \A c \in CallersOf(k) : pc[c] = "done"

\* o ran the factory for k and every other caller of k subscribed to that
\* run (it reached the in-flight check while the run was pending)
JoinedOn(k, o) ==
    /\ o \in CallersOf(k)
    /\ path[o] = "direct"
    /\ \A c \in CallersOf(k) \ {o} : path[c] = "wait" /\ waitOn[c] = o

\* two outcomes a caller can tell apart: a value differs from an error,
\* and two values differ when they come from different factory runs
SameOutcome(r1, r2) ==
    /\ r1.kind = r2.kind
    /\ r1.kind = "value" => r1.src = r2.src

C3_AtMostOneInFlight ==
    \A k \in Keys :
       Cardinality({c \in CallersOf(k) : promise[c].st = "pending"}) <= 1

\* C14: the cache entry of a key is written exactly when a factory run for
\* it settles with a value that is neither null nor undefined, once per such
\* run and with that value; a run that throws, times out or returns null
\* or undefined leaves the cache as it was, and nothing else writes it.
C14_CachedOncePerSuccess ==
    [][ /\ \A c \in Callers :
              (promise[c].st = "pending" /\ promise'[c].st # "pending") =>
                 IF promise'[c].res.kind = "value"
                   THEN cache' = [cache EXCEPT ![ckey[c]] = c]
                   ELSE cache' = cache
        /\ cache' # cache =>
              \E c \in Callers :
                 /\ promise[c].st = "pending"
                 /\ promise'[c].st = "resolved"
                 /\ cache[ckey[c]] # c ]_vars

C14_Witness ==
    \E c, d \in Callers :
       /\ ckey[c] = ckey[d]
       /\ promise[c].st = "rejected" /\ promise[c].res.kind = "error"
       /\ promise[d].st = "resolved" /\ promise[d].res.kind = "value"
       /\ cache[ckey[d]] = d

\* C4: from CLOSED with failure count 0 the circuit stays CLOSED for the
\* first failureThreshold - 1 consecutive failures and becomes OPEN on the
\* failureThreshold-th, with nextAttemptTime = now + recoveryTimeout.
C4_OpensAtThreshold ==
    [][ (failRun' # failRun /\ failRun' >= 1) =>
          /\ failRun' < failureThreshold => cbState' = "CLOSED"
          /\ failRun' = failureThreshold =>
                /\ cbState = "CLOSED" /\ cbState' = "OPEN"
                /\ nextAttemptTime' = now + recoveryTimeout ]_vars

C4_Witness ==
    /\ failRun = failureThreshold
    /\ cbState = "OPEN"
    /\ failureCount = failureThreshold
    /\ nextAttemptTime = now + recoveryTimeout

\* a step in which call i enters execute
Calling(i) ==
    /\ callPc[i] # "inflight"
    /\ \/ callPc'[i] # callPc[i]
       \/ callRes'[i] # callRes[i]

\* C5: while the circuit is OPEN and now < nextAttemptTime no call invokes
\* the guarded operation; every call is short-circuited.
C5_OpenShortCircuits ==
    [][ (cbState = "OPEN" /\ now < nextAttemptTime) =>
          \A i \in Calls :
             /\ callPc'[i] = "inflight" => callPc[i] = "inflight"
             /\ Calling(i) =>
                   /\ callPc'[i] = "done"
                   /\ callRes'[i] \in {"FALLBACK", "OPEN_ERROR"} ]_vars

C5_Witness ==
    /\ cbState = "OPEN" /\ now < nextAttemptTime
    /\ \E i \in Calls : callPc[i] = "done" /\ callRes[i] = "OPEN_ERROR"

\* C6: when the circuit is OPEN and now >= nextAttemptTime the next call
\* moves it to HALF_OPEN with success count 0 and is admitted; the
\* successThreshold-th success recorded in HALF_OPEN closes the circuit
\* with failure count and success count 0, and no earlier success does.
C6_Recovery ==
    [][ /\ \A i \in Calls :
             (cbState = "OPEN" /\ now >= nextAttemptTime /\ Calling(i)) =>
                /\ cbState' = "HALF_OPEN" /\ successCount' = 0
                /\ callPc'[i] = "inflight"
        /\ (halfOpenSuccesses' # halfOpenSuccesses
               /\ halfOpenSuccesses' = successThreshold) =>
              /\ cbState' = "CLOSED"
              /\ failureCount' = 0 /\ successCount' = 0
        /\ (halfOpenSuccesses' # halfOpenSuccesses
               /\ halfOpenSuccesses' \in 1..(successThreshold - 1)) =>
              cbState' = "HALF_OPEN" /\ successCount' = halfOpenSuccesses'
      ]_vars

C6_Witness ==
    /\ cbState = "CLOSED"
    /\ halfOpenSuccesses = successThreshold
    /\ failureCount = 0 /\ successCount = 0

\* C7: a failure recorded while the circuit is HALF_OPEN returns it to OPEN
\* with nextAttemptTime = now + recoveryTimeout.
C7_HalfOpenFailureReopens ==
    [][ \A i \in Calls :
          (cbState = "HALF_OPEN" /\ callPc[i] = "inflight"
              /\ callPc'[i] = "done" /\ callRes'[i] # "OK") =>
             /\ cbState' = "OPEN"
             /\ nextAttemptTime' = now + recoveryTimeout ]_vars

C7_Witness ==
    /\ cbState = "OPEN"
    /\ halfOpenSuccesses = 1
    /\ nextAttemptTime = now + recoveryTimeout

Terminal ==
    {"COMPLETED", "FAILED", "EXPIRED"}

\* C8: a record whose status is COMPLETED, FAILED or EXPIRED never changes
\* status again.
C8_TerminalIsFinal ==
    [][ \A id \in Execs :
          swapStatus[id] \in Terminal => swapStatus'[id] = swapStatus[id]
      ]_vars

\* C9: executeSwap on a stored quote with now > expiresAt fails with
\* ROUTE_EXPIRED, calls no adapter and creates no swap-transaction record.
C9_ExpiredQuoteRejected ==
    [][ \A e \in Execs :
          /\ (epc[e] = "idle" /\ epc'[e] # "idle"
                 /\ quotes[equote'[e]].present
                 /\ now > quotes[equote'[e]].expiresAt) =>
                epc'[e] = "done" /\ eres'[e] = "ROUTE_EXPIRED"
          /\ eres'[e] = "ROUTE_EXPIRED" =>
                /\ epc'[e] = "done"
                /\ adapterCalls'[e] = 0
                /\ swapStatus'[e] = NoRecord ]_vars

C9_Witness ==
    \E e \in Execs :
       /\ epc[e] = "done" /\ quotes[equote[e]].present
       /\ now > quotes[equote[e]].expiresAt
       /\ eres[e] = "ROUTE_EXPIRED"
       /\ adapterCalls[e] = 0 /\ swapStatus[e] = NoRecord

\* C10: cancelSwap on a record whose status is not PENDING fails with
\* INVALID_INPUT and does not call updateSwapStatus.
C10_CancelOnlyPending ==
    \A k \in Cancels :
       (kpc[k] = "done" /\ kseen[k] \in Terminal) =>
          kres[k] = "INVALID_INPUT" /\ ~kupdated[k]

\* ---- claims about the GetQuote pipeline
\* request r has been answered with a response
Answered(r) ==
    tpc[r]["quote"] = "done" /\ tres[r]["quote"].kind = "value"

\* the quotes of a response are in descending order of the metric
IsRanked(body, favorLowLatency) ==
    \A i \in 1..(Len(body) - 1) :
       RankingMetric(body[i], favorLowLatency)
          >= RankingMetric(body[i + 1], favorLowLatency)

\* C11: in every response the best route's ranking metric (totalScore, or
\* the latency-biased metric when the request has favorLowLatency) is >=
\* that of every alternative, and the alternatives are in descending order
\* of that metric.
C11_BestRanksFirst ==
    \A r \in Requests :
       Answered(r) =>
          IsRanked(tres[r]["quote"].body, req[r].favorLowLatency)

\* C12: a response holds at most maxRoutes alternatives, maxRoutes being
\* the bound carried by the request; with maxRoutes = 0 there is none.
C12_AtMostMaxRoutes ==
    \A r \in Requests :
       Answered(r) =>
          Len(tres[r]["quote"].body) - 1 <= req[r].maxRoutes

\* the fan-out of request r has settled and its route calculation is over
FannedOut(r) ==
    /\ tpc[r]["route"] \in {"settled", "done"}
    /\ tprom[r]["route"].st \in {"resolved", "rejected"}

\* the provider branches of request r that were fulfilled
Fulfilled(r) ==
    {p \in ProviderNames : tres[r][p].kind = "value"}

\* C13: when at least one branch of the fan-out succeeds, the others having
\* failed or having been rejected by an open circuit, findBestRoute answers
\* with a response whose best route and alternatives are quotes of the
\* branches that succeeded; when every branch fails it fails with
\* ROUTE_NOT_FOUND.
C13_PartialFailureTolerated ==
    \A r \in Requests :
       FannedOut(r) =>
          /\ Fulfilled(r) # {} =>
                /\ tprom[r]["route"].st = "resolved"
                /\ tprom[r]["route"].res.body # <<>>
                /\ \A i \in DOMAIN tprom[r]["route"].res.body :
                      \E p \in Fulfilled(r) :
                         tprom[r]["route"].res.body[i] = tres[r][p].body[1]
          /\ Fulfilled(r) = {} =>
                /\ tprom[r]["route"].st = "rejected"
                /\ tprom[r]["route"].res.kind = "ROUTE_NOT_FOUND"
          /\ tpc[r]["route"] = "done" =>
                tres[r]["route"] = tprom[r]["route"].res

C13_Witness ==
    \E r \in Requests :
       /\ tpc[r]["route"] = "done"
       /\ tres[r]["jupiter"].kind \in {"DEX_UNAVAILABLE", "CIRCUIT_BREAKER_OPEN"}
       /\ tres[r]["okx"].kind = "value"
       /\ tres[r]["route"].kind = "value"
       /\ tres[r]["route"].body = <<AdapterQuote("okx")>>

\* the getQuote calls made to adapter p by the first n requests
RECURSIVE CallsUpTo(_, _)
CallsUpTo(p, n) ==
    IF n = 0 THEN 0 ELSE adapterQuoteCalls[n][p] + CallsUpTo(p, n - 1)

\* the getQuote calls made to adapter p by all requests
TotalCalls(p) ==
    CallsUpTo(p, NumRequests)

\* no route calculation of any request has failed
NoFailedRun ==
    \A r \in Requests : \A L \in {"quote", "route"} :
       tprom[r][L].st # "rejected"

RepeatsFresh(r) ==
    /\ Answered(r)
    /\ req[r].prev.body # <<>>
    /\ req[r].favorLowLatency = req[r].prev.favorLowLatency
    /\ req[r].maxRoutes = req[r].prev.maxRoutes

\* request r has started a fan-out of its own
NewFanOut(r) ==
    \E p \in ProviderNames : tpc[r][p] # "idle"

\* C16: after a successful GetQuote, an identical GetQuote issued less than
\* 30 s later is served without a new adapter fan-out and returns the same
\* ranking; one issued more than 30 s later triggers a fresh fan-out.
C16_CachedFor30s ==
    \A r \in Requests :
       RepeatsFresh(r) =>
          /\ req[r].issuedAt < req[r].prev.at + routeExpirationMs =>
                /\ ~NewFanOut(r)
                /\ tres[r]["quote"].body = req[r].prev.body
          /\ req[r].issuedAt > req[r].prev.at + routeExpirationMs =>
                NewFanOut(r)

\* ---- claims about executeSwap and the adapters
\* C17: executeSwap calls buildTransaction on the adapter of the provider
\* that produced the stored quote: a best route obtained from Jupiter is
\* built by the Jupiter adapter, one obtained from OKX by the OKX adapter.
C17_BuiltByQuoteSource ==
    \A e \in Execs :
       builtBy[e] # NoAdapter => builtBy[e] = quotes[equote[e]].source

\* In SpecSwap the circuit of the CircuitBreakerService variables is the
\* build circuit of the adapter that executeSwap calls.
\* C18: every buildTransaction call of executeSwap passes through the
\* provider's build circuit: no call is made while the circuit is OPEN and
\* its recovery time has not come, and a failed build is recorded on the
\* circuit (one more failure counted, or the circuit opened).
C18_BuildThroughCircuit ==
    [][\A e \in Execs :
          adapterCalls'[e] # adapterCalls[e] =>
             /\ ~(cbState = "OPEN" /\ ~shouldAttemptReset)
             /\ eres'[e] \in BuildErrors =>
                   \/ failureCount' = failureCount + 1
                   \/ cbState' = "OPEN"]_vars

\* C19: when the adapter's buildTransaction fails, executeSwap fails with
\* the adapter's typed error; that step leaves the record's status as
\* createSwapTransaction wrote it, no transaction is ever attached to the
\* record, and no later step of an executeSwap changes its status.
C19_FailedBuildLeavesPending ==
    [][\A e \in Execs :
          /\ (epc[e] = "created" /\ epc'[e] = "done") =>
                /\ eres'[e] \in BuildErrors
                /\ swapStatus'[e] = swapStatus[e]
                /\ ~swapHasTx'[e]
          /\ eres[e] \in BuildErrors =>
                /\ ~swapHasTx'[e]
                /\ swapStatus'[e] # swapStatus[e] => epc' = epc]_vars

C19_Witness ==
    \E e \in Execs :
       /\ epc[e] = "done" /\ eres[e] \in BuildErrors
       /\ adapterCalls[e] = 1
       /\ swapStatus[e] = "PENDING" /\ ~swapHasTx[e]

\* ---- claims about the coalescing timeout
\* the adapter call of request r for provider p has run for the whole
\* coalescing timeout
TimedOut(r, p) ==
    /\ tpc[r][p] = "running"
    /\ now >= tstart[r][p] + coalescingTimeout(p)

\* C20: when a factory has not settled within the coalescing timeout, the
\* coalesced request is rejected with EXTERNAL_SERVICE_ERROR carrying the
\* key and the timeout, that error is what the caller gets, and the
\* in-flight entry of the key is removed.
C20_TimeoutFails ==
    [][\A r \in Requests : \A p \in ProviderNames :
          /\ (TimedOut(r, p) /\ tpc'[r][p] # "running") =>
                /\ tprom'[r][p].st = "rejected"
                /\ tprom'[r][p].res.kind = "EXTERNAL_SERVICE_ERROR"
                /\ tprom'[r][p].res.ctx =
                      [key |-> p, timeout |-> coalescingTimeout(p)]
          /\ (/\ tpc[r][p] = "settled"
              /\ tprom[r][p].res.kind = "EXTERNAL_SERVICE_ERROR"
              /\ tpc'[r][p] # "settled") =>
                /\ tres'[r][p] = tprom[r][p].res
                /\ lpending'[p] = 0]_vars

C20_Witness ==
    \E r \in Requests : \E p \in ProviderNames :
       /\ tpc[r][p] = "done"
       /\ tres[r][p].kind = "EXTERNAL_SERVICE_ERROR"
       /\ tres[r][p].ctx.timeout = providerThirdArg
       /\ now >= tstart[r][p] + providerThirdArg
       /\ lpending[p] = 0

\* ---- claims about the ttl argument
\* C21: when getWithCoalescing is called with ttl = 0 or without a ttl, a
\* successful factory result is not written to the cache, while a caller
\* that finds a run in flight on the key still joins it.
C21_NoTtlNoCacheWrite ==
    callTtl \in {NoTtl, 0} =>
       /\ \A k \in Keys : cache[k] = NoVal
       /\ \A c \in TtlCallers :
             (path[c] = "wait" /\ waitOn[c] # NoPromise) =>
                ckey[waitOn[c]] = ckey[c]

\* ---- claims about store failures
\* C22: when a write of the SwapTransactionRecord fails during executeSwap
\* (the record is not created for a quote that is there and has not
\* expired, or the built transaction is not attached), the request fails
\* with DATABASE_ERROR.
C22_StoreFailureIsDatabaseError ==
    [][\A e \in Execs :
          /\ (/\ epc[e] = "idle" /\ epc'[e] = "done"
              /\ quotes[equote'[e]].present
              /\ ~QuoteExpired(equote'[e])) =>
                eres'[e] = "DATABASE_ERROR"
          /\ (epc[e] = "built" /\ epc'[e] = "done" /\ ~swapHasTx'[e]) =>
                eres'[e] = "DATABASE_ERROR"]_vars

\* C23: when the save of the QuoteRecord fails in executeQuoteRequest (no
\* record is added for a route response that is a value), the promise of
\* the quote layer still resolves with the ranked routes, under a
\* temporary quote id, and the request that ran the factory returns that
\* response.
C23_FailedSaveStillAnswers ==
    [][\A r \in Requests :
          /\ (/\ tpc[r]["quote"] = "running" /\ tpc'[r]["quote"] = "settled"
              /\ tres[r]["route"].kind = "value"
              /\ quoteRecords' = quoteRecords) =>
                tprom'[r]["quote"] =
                   [st |-> "resolved",
                    res |-> ValueResponse(tres[r]["route"].body, TempQuoteId)]
          /\ (tpc[r]["quote"] = "settled" /\ tpc'[r]["quote"] = "done") =>
                tres'[r]["quote"] = tprom[r]["quote"].res]_vars

C23_Witness ==
    \E r \in Requests :
       /\ tpc[r]["quote"] = "done"
       /\ tprom[r]["quote"].st = "resolved"
       /\ tres[r]["quote"].kind = "value"
       /\ tres[r]["quote"].body # <<>>
       /\ tres[r]["quote"].quoteId = TempQuoteId
       /\ quoteRecords = <<>>

\* ---- claims about the adapters' error mapping
\* the error code the statement gives for a failed upstream attempt, "any"
\* where it names none
StatedErrorCode(up) ==
    IF up.status = 429 THEN "DEX_RATE_LIMITED"
    ELSE IF up.code \in {"ECONNABORTED", "ETIMEDOUT"} THEN "TRANSACTION_TIMEOUT"
    ELSE IF up.status \in 400..499 THEN "DEX_INVALID_RESPONSE"
    ELSE IF up.status \in 500..599 THEN "DEX_UNAVAILABLE"
    ELSE IF up.status = 200 /\ up.payload # "valid" THEN "DEX_INVALID_RESPONSE"
    ELSE "any"

\* C24: every failed upstream attempt of getQuote and of buildTransaction,
\* in either adapter, is thrown with the typed error of its kind: 429 as
\* DEX_RATE_LIMITED, a timeout as TRANSACTION_TIMEOUT, another 4xx as
\* DEX_INVALID_RESPONSE, a 5xx as DEX_UNAVAILABLE, an empty or malformed
\* payload as DEX_INVALID_RESPONSE.
C24_TypedUpstreamErrors ==
    \A c \in DOMAIN upstream :
       (upstream[c] # NotCalled /\ StatedErrorCode(upstream[c]) # "any") =>
          thrown[c] = StatedErrorCode(upstream[c])

\* ---- claims about the guarded adapter operations
\* C25: a call of a guarded adapter operation (quote, build or simulate)
\* that execute rejects without running the operation, because the circuit
\* is OPEN, fails with error code CIRCUIT_BREAKER_OPEN.
C25_OpenRejectsWithCode ==
    \A i \in Calls : \A operation \in GuardedOperations :
       (/\ callFallback[i] = OperationHasFallback(operation)
        /\ callPc[i] = "done"
        /\ callRes[i] \in {"FALLBACK", "OPEN_ERROR"}) =>
          ShortCircuitError(callRes[i]) = "CIRCUIT_BREAKER_OPEN"

\* C26: while the circuit is HALF_OPEN and a probe (a call let through in
\* HALF_OPEN) is in flight, a call that arrives is not let through to the
\* guarded operation.
C26_OneProbeInFlight ==
    [][\A i \in Calls : \A j \in Calls \ {i} :
          (/\ cbState = "HALF_OPEN"
           /\ callProbe[j] /\ callPc[j] = "inflight"
           /\ callPc[i] # "inflight") =>
             callPc'[i] # "inflight"]_vars

\* ---- claims about cache failures
\* C27: a GetQuote whose cache backend fails on a read or on a write does
\* not fail with the cache error: it completes with the value its factory
\* computes.
C27_CacheFailureDegrades ==
    \A c \in Callers :
       pc[c] = "done" => GetQuoteOutcome(result[c]) # "CACHE_ERROR"

\* ---- claims about the controller
\* C28: a GetQuote query with inputMint equal to outputMint is answered
\* with INVALID_INPUT and QuoteService.getQuote is not called for it: the
\* step changes no cache entry, no in-flight entry, no adapter call count
\* and no QuoteRecord, nor anything else the quote service keeps.
C28_SameMintRejected ==
    [][\A r \in Requests :
          (ctl'[r] # ctl[r] /\ ctl'[r].inputMint = ctl'[r].outputMint) =>
             /\ ctl'[r].res = "INVALID_INPUT"
             /\ UNCHANGED <<lcache, lpending, adapterQuoteCalls, quoteRecords>>
             /\ UNCHANGED quoteVars]_vars

C28_Witness ==
    \E r \in Requests :
       /\ ctl[r].res = "INVALID_INPUT"
       /\ ctl[r].inputMint = ctl[r].outputMint
       /\ tpc[r]["quote"] = "idle"
       /\ \E q \in Requests \ {r} : tpc[q]["quote"] = "running"

\* ---- claims about the route score
\* both quotes have been scored and they differ in the field f only, the
\* quote of slot i having the larger value
LargerOnlyIn(i, j, f) ==
    /\ score[i] # NotScored /\ score[j] # NotScored
    /\ scoreQuote[i][f] > scoreQuote[j][f]
    /\ \A g \in {"provider", "outAmount", "responseTime", "platformFee"} \ {f} :
          scoreQuote[i][g] = scoreQuote[j][g]

\* C29 as stated: with everything else fixed a larger outAmount gives a
\* strictly larger totalScore, a larger fee or a larger response time a
\* strictly smaller one.
C29_StrictlyMonotone ==
    \A i \in DOMAIN score : \A j \in DOMAIN score :
       /\ LargerOnlyIn(i, j, "outAmount") => score[i] > score[j]
       /\ LargerOnlyIn(i, j, "platformFee") => score[i] < score[j]
       /\ LargerOnlyIn(i, j, "responseTime") => score[i] < score[j]

\* C29 amended: with everything else fixed a larger outAmount never gives
\* a smaller totalScore and gives a strictly larger one when the smaller
\* outAmount is below the point where its sub-score saturates; a larger fee
\* or response time never gives a larger totalScore and gives a strictly
\* smaller one when the smaller fee, or response time, is below saturation.
C29_MonotoneUpToSaturation ==
    \A i \in DOMAIN score : \A j \in DOMAIN score :
       /\ LargerOnlyIn(i, j, "outAmount") =>
             /\ score[i] >= score[j]
             /\ normalizeOutputAmount(scoreQuote[j].outAmount) < 1000 =>
                   score[i] > score[j]
       /\ LargerOnlyIn(i, j, "platformFee") =>
             /\ score[i] <= score[j]
             /\ normalizeFees(scoreQuote[j].platformFee, inAmount) < 1000 =>
                   score[i] < score[j]
       /\ LargerOnlyIn(i, j, "responseTime") =>
             /\ score[i] <= score[j]
             /\ normalizeLatency(scoreQuote[j].responseTime) < 1000 =>
                   score[i] < score[j]

C29_Witness ==
    \E i \in DOMAIN score : \E j \in DOMAIN score :
       /\ LargerOnlyIn(i, j, "responseTime")
       /\ scoreQuote[j].responseTime = 1500
       /\ scoreQuote[i].responseTime = 3000
       /\ score[i] < score[j]

\* ---- claims about the nesting of the timeouts
\* the coalescing timeouts the statement gives: 5 s for a provider quote,
\* 8 s for a route calculation, 10 s for a quote call
StatedTimeout(L) ==
    CASE L = "quote" -> 10000
      [] L = "route" -> 8000
      [] OTHER -> 5000

\* C30: a provider-quote factory that does not settle is abandoned by its
\* coalescing timeout after 5 s, and the timeouts of the enclosing layers
\* are 8 s for the route calculation and 10 s for the quote call, each
\* strictly longer than the one it encloses.
C30_NestedTimeouts ==
    [][\A r \in Requests : \A p \in ProviderNames :
          (/\ tpc[r][p] = "running" /\ tprom[r][p].st = "pending"
           /\ tprom'[r][p].st = "rejected"
           /\ tprom'[r][p].res.kind = "EXTERNAL_SERVICE_ERROR") =>
             /\ tprom'[r][p].res.ctx.timeout = StatedTimeout(p)
             /\ now < tstart[r][p] + StatedTimeout(p) + TickMs
             /\ coalescingTimeout("route") = StatedTimeout("route")
             /\ coalescingTimeout("quote") = StatedTimeout("quote")
             /\ coalescingTimeout(p) < coalescingTimeout("route")
             /\ coalescingTimeout("route") < coalescingTimeout("quote")]_vars

\* ---- claims about the in-flight map
\* no getWithCoalescing call on key k is in progress
NoCallInProgress(k) ==
    \A c \in Callers : ckey[c] = k => pc[c] \in {"idle", "done"}

\* C31: whenever no getWithCoalescing call is in progress for a key, the
\* in-flight map holds no entry for it, whether the factories succeeded,
\* failed or timed out and whether or not waiters retried.
C31_NoLeakedEntry ==
    \A k \in Keys : NoCallInProgress(k) => pendingRequests[k] = NoPromise

C31_Witness ==
    \E k \in Keys :
       /\ NoCallInProgress(k)
       /\ pendingRequests[k] = NoPromise
       /\ factoryCalls[k] >= 2
       /\ \E c \in Callers :
             /\ ckey[c] = k /\ pc[c] = "done" /\ path[c] = "wait"
             /\ result[c].kind = "timeout" /\ result[c].src = c
       /\ \E c \in Callers :
             /\ ckey[c] = k /\ pc[c] = "done" /\ path[c] = "direct"
             /\ result[c].kind = "error"

\* C32: a waiter whose awaited promise rejects starts one run of its own
\* factory; when that run settles the waiter returns its outcome, an error
\* included, and does nothing more: there is no second retry.
C32_WaiterRetriesOnce ==
    [][\A c \in Callers :
          /\ (/\ pc[c] = "waiting" /\ pc'[c] # "waiting"
              /\ promise[waitOn[c]].st = "rejected") =>
                /\ pc'[c] = "running"
                /\ promise'[c].st = "pending"
                /\ factoryCalls'[ckey[c]] = factoryCalls[ckey[c]] + 1
          /\ (path[c] = "wait" /\ pc[c] = "running") =>
                pc'[c] \in {"running", "settled"}
          /\ (path[c] = "wait" /\ pc[c] = "settled" /\ pc'[c] # "settled") =>
                /\ pc'[c] = "done"
                /\ result'[c] = promise[c].res
                /\ factoryCalls'[ckey[c]] = factoryCalls[ckey[c]]
          /\ pc[c] = "done" =>
                pc'[c] = "done" /\ result'[c] = result[c]]_vars

C32_Witness ==
    \E c \in Callers :
       /\ path[c] = "wait" /\ pc[c] = "done"
       /\ promise[waitOn[c]].st = "rejected"
       /\ promise[c].st = "rejected"
       /\ result[c] = [kind |-> "error", src |-> c]
       /\ factoryCalls[ckey[c]] = 2

\* ---- claims about the ranking
\* the two quotes of the fan-out have the same ranking metric
RankTie ==
    RankingMetric(rankQuote["jupiter"], rankFavor)
       = RankingMetric(rankQuote["okx"], rankFavor)

\* C33: when the two quotes of a fan-out have an equal ranking metric, the
\* quote of the provider whose name is lexicographically smaller, jupiter,
\* is ranked first, in whichever order the adapter responses arrived; with
\* different metrics the quote with the larger metric is first.
C33_TieBreaksByProviderName ==
    ranked # <<>> =>
       /\ Len(ranked) = 2
       /\ RankTie => ranked = <<rankQuote["jupiter"], rankQuote["okx"]>>
       /\ ~RankTie => RankingMetric(ranked[1], rankFavor)
                         > RankingMetric(ranked[2], rankFavor)

C33_Witness ==
    /\ ranked # <<>>
    /\ RankTie
    /\ arrived = <<"okx", "jupiter">>
    /\ rankQuote["jupiter"].outAmount # rankQuote["okx"].outAmount
    /\ ranked[1].provider = "jupiter"

\* the reliability the statement gives a provider, in thousandths
StatedReliability(provider) ==
    IF provider = "jupiter" THEN 950 ELSE 900

\* C34: the reliability sub-score of a ranked quote is the value of its
\* own provider (0.95 for Jupiter, 0.90 for OKX), so the two quotes of a
\* fan-out, which differ in provider, have different reliability values
C34_ReliabilityByProvider ==
    \A i \in DOMAIN ranked :
        /\ getProviderReliability(ranked[i]) = StatedReliability(ranked[i].provider)
        /\ \A j \in DOMAIN ranked :
               ranked[i].provider # ranked[j].provider
                   => getProviderReliability(ranked[i]) # getProviderReliability(ranked[j])

\* C35: in every reachable state of a circuit, CLOSED implies
\* 0 <= failureCount < failureThreshold, successCount > 0 implies
\* HALF_OPEN, and OPEN implies that nextAttemptTime is set, whatever the
\* interleaving of operation outcomes and manual resets.
C35_CircuitInvariant ==
    /\ cbState = "CLOSED" =>
          failureCount >= 0 /\ failureCount < failureThreshold
    /\ successCount > 0 => cbState = "HALF_OPEN"
    /\ cbState = "OPEN" => nextAttemptTime # NoTime

\* a circuit that counts successes in HALF_OPEN while its failure count is
\* past the threshold and an operation is still in flight
C35_Witness ==
    /\ cbState = "HALF_OPEN"
    /\ successCount > 0
    /\ failureCount > failureThreshold
    /\ \E i \in Calls : callPc[i] = "inflight"

\* C36: an operation that was let through while the circuit was CLOSED and
\* returns while the circuit is HALF_OPEN is not counted: its success does
\* not increment the HALF_OPEN success count (nor close the circuit) and
\* its failure does not re-open the circuit.
C36_OnlyProbesCount ==
    [][\A i \in Calls :
          (/\ cbState = "HALF_OPEN"
           /\ callPc[i] = "inflight" /\ ~callProbe[i]
           /\ callPc'[i] = "done") =>
             /\ cbState' = "HALF_OPEN"
             /\ successCount' = successCount]_vars

\* C37: a guarded call whose operation was invoked and failed ends with
\* the operation's own error, also when the failure trips the circuit;
\* the fallback's CIRCUIT_BREAKER_OPEN ends only calls that were rejected
\* without invoking the operation.
C37_InvokedFailureKeepsError ==
    [][\A i \in Calls :
          (callPc[i] = "inflight" /\ callPc'[i] = "done" /\ callRes'[i] # "OK") =>
             /\ callRes'[i] = "OP_ERROR"
             /\ ShortCircuitError(callRes'[i]) # "CIRCUIT_BREAKER_OPEN"]_vars

\* C38: a response is computed for the favorLowLatency and maxRoutes of
\* the request it answers, whether it was computed by that request, taken
\* from the cache or awaited from another request's run.
C38_OwnParameters ==
    \A r \in Requests :
       (Answered(r) /\ tres[r]["quote"].quoteId \in DOMAIN quoteRecords) =>
          quoteRecords[tres[r]["quote"].quoteId].request
             = RequestParameters(req[r])

\* C39: when GetQuote returns a response, computed, awaited or cached,
\* its quoteId is the id of a stored QuoteRecord whose expiresAt is later
\* than the time of the return.
C39_QuoteIdNamesLiveRecord ==
    [][\A r \in Requests :
          (~Answered(r) /\ Answered(r)') =>
             /\ tres'[r]["quote"].quoteId \in DOMAIN quoteRecords'
             /\ quoteRecords'[tres'[r]["quote"].quoteId].expiresAt > now']_vars

====
